---- MODULE Spec2Model ----
(***************************************************************************)
(* setup-ssh-runner: SSH server bring-up (lib/setup-ssh.js) and the        *)
(* tunnel orchestrator run() (lib/index.js) with its three tunnel plugins  *)
(* (lib/tunnels/pinggy.js, sshj.js, cloudflare.js).                        *)
(*                                                                         *)
(* Text is modelled as sequences of chunks: a line is a sequence of        *)
(* strings, each standing for the characters it spells, so that trim() and *)
(* startsWith() are computed on the line and not assumed.                  *)
(***************************************************************************)
EXTENDS Integers, Sequences, FiniteSets, TLC

VARIABLES
  entry,        \* "run": index.js run(); "setup": SetupSSH.setup() called directly;
                \* "plugin": a plugin class used directly; "retry": retryWithBackoff
  host,         \* what the machine offers: the port-probing tool on PATH, an ssh
                \* client, cloudflared, and whether GITHUB_ENV is set
  platform,     \* os.platform()
  config,       \* the config singleton: ssh.port, ssh.mode, ssh.publicKey,
                \* ssh.allowUsers, ssh.disableForceCwd, tunnels
  options,      \* the argument of run(options)
  pc,           \* position of the main task
  authKeys,     \* content of ~/.ssh/authorized_keys, or Absent
  selected,     \* the mode setup() dispatched to
  daemonStarts, \* start/restart commands issued to an SSH daemon by the bring-up
  probe,        \* last waitPortLocalhost call: port and result
  probePolls,   \* iterations of the probe loop so far
  sshdPid,      \* PID of the user-mode daemon spawnDetached returned, or NoPid
  sshError,     \* the error setup() threw, or None
  sshResult,    \* the value setup() returned, or None
  results,      \* run()'s results object
  exitCode,     \* << code >> of process.exit(code), or NoExit
  nextPid,      \* next PID the OS hands out
  tpc,          \* position of each plugin's task
  tun,          \* plugin instance fields: pid, endpoint, logFile
  startArg,     \* the sshPort argument each start() was called with, or NotCalled
  availCalled,  \* plugins whose isAvailable() was invoked
  polls,        \* iterations of each plugin's log probe loop
  logs,         \* what each backend has written to its log file
  outcome,      \* value each plugin's task resolved to
  firstDone,    \* the plugin whose task settled first, 0 before
  fgChildren,   \* plugins whose backend runs as a foreground child of this process
  signalled,    \* PIDs a signal was sent to
  timedOut,     \* plugins whose log probe returned null after its timeout
  sshdConfig,   \* content of the system sshd_config, or Absent
  origConfig,   \* the system sshd_config as it was before the bring-up
  observed,     \* what the bring-up has learnt of the host: user, sudo, sshd
  backups,      \* backup copies made of the system sshd_config
  serviceOps,   \* start/restart commands issued to the system SSH service
  written,      \* files the user-mode bring-up created, as << directory, name >>
  elevated,     \* a command was run through sudo
  pipelineVars, \* values SSH-J handed to hostrunner.setPipelineVar
  stopReturn,   \* what the last stop() of each plugin returned
  connectReturn, \* what the last getConnectCommand() call on each plugin returned
  healthReturn, \* what the last healthCheck() call on each plugin returned
  portListening, \* the configured SSH port accepts connections on localhost
  retry,        \* the retryWithBackoff call in progress: options, loop variables, result
  remoteTunnel, \* a Cloudflare tunnel of the chosen name exists in the account
  creates,      \* `cloudflared tunnel create` commands issued
  pluginFiles,  \* paths each plugin's start() has written
  pidFile,      \* content of each plugin's PID file, None when not written
  spawnError,   \* an 'error' event of a child that failed to spawn is pending
  invocations,  \* how many times start() or setup() has been called with the same settings
  summary,      \* what printSummary printed about the tunnels, NoSummary before
  logOwner,     \* the PID of the process that wrote the endpoint line of each log
  ids,          \* a sanitizeId call and the identifiers generated at start time
  killedBy      \* the signal that ended the process, None otherwise

vars == << entry, platform, config, options, pc, authKeys, selected, daemonStarts,
           probe, probePolls, sshdPid, sshError, sshResult, results, exitCode, nextPid,
           tpc, tun, startArg, availCalled, polls, logs, outcome, firstDone,
           fgChildren, signalled, timedOut, sshdConfig, origConfig, observed, backups,
           serviceOps, written, elevated, pipelineVars, stopReturn, connectReturn, healthReturn,
           host, portListening, retry, remoteTunnel, creates, pluginFiles, pidFile,
           spawnError, invocations, summary, killedBy, ids, logOwner >>

hostVars == << sshdConfig, origConfig, observed, backups, serviceOps, written, elevated >>
sshVars == << authKeys, selected, daemonStarts, probe, probePolls, sshdPid, sshError,
              sshResult, hostVars >>
callVars == << pipelineVars, stopReturn, connectReturn, healthReturn >>
plugVars == << tpc, tun, startArg, availCalled, polls, logs, outcome, firstDone,
               fgChildren, signalled, timedOut, callVars >>
tunnelVars == << nextPid, plugVars >>
envVars == << entry, platform, options, host >>
remoteVars == << remoteTunnel, creates >>
fileVars == << pluginFiles, pidFile, spawnError >>
reportVars == << summary, killedBy, ids, logOwner >>
auxVars == << portListening, retry, remoteVars, fileVars, invocations, reportVars >>

----------------------------------------------------------------------------
\* Bounds of the model

\* longest public-key blob, in lines
MaxKeyLines == 2
\* iterations a readiness probe (port or log) makes before its timeout elapses
MaxPolls == 2

None == "none"
\* a file that does not exist; a file's content is a sequence of lines
Absent == << << "<absent>" >> >>
\* the process has not exited; << code >> once process.exit(code) has run
NoExit == << >>
\* the pid of nothing: undefined or null in the program
NoPid == 0

----------------------------------------------------------------------------
\* Text

SP == " "

\* String.prototype.trim on a line: leading and trailing blanks removed
RECURSIVE TrimLeft(_)
TrimLeft(line) ==
  IF line # << >> /\ Head(line) = SP THEN TrimLeft(Tail(line)) ELSE line

RECURSIVE TrimRight(_)
TrimRight(line) ==
  IF line # << >> /\ line[Len(line)] = SP
    THEN TrimRight(SubSeq(line, 1, Len(line) - 1))
    ELSE line

Trim(line) == TrimRight(TrimLeft(line))

\* String.prototype.startsWith
StartsWith(line, chunk) == line # << >> /\ Head(line) = chunk

MapTrim(blob) == [i \in 1..Len(blob) |-> Trim(blob[i])]

\* the lines PIPELINE_SSH_PUBKEY may hold
EdLine == << "ssh-", "ed25519", " ", "AAAA1" >>
RsaLine == << "ssh-", "rsa", " ", "AAAA2" >>
EcdsaLine == << "ecdsa-sha2-", "nistp256", " ", "AAAA3" >>
PaddedRsaLine == << SP, "ssh-", "rsa", " ", "AAAA4", SP >>
CommentLine == << "#", "ssh-", "rsa", " ", "AAAA5" >>
BlankLine == << SP >>
EmptyLine == << >>
GarbageLine == << "hello" >>

KeyLines == { EdLine, RsaLine, EcdsaLine, PaddedRsaLine, CommentLine, BlankLine,
              EmptyLine, GarbageLine }

RECURSIVE BlobsOfLen(_)
BlobsOfLen(n) ==
  IF n = 0 THEN { << >> }
  ELSE { Append(b, l) : b \in BlobsOfLen(n - 1), l \in KeyLines }

\* a string splits into at least one line, so the blob of no line at all stands
\* for an unset PIPELINE_SSH_PUBKEY (null)
NullBlob == << >>

\* every blob of at most MaxKeyLines lines
Blobs == UNION { BlobsOfLen(n) : n \in 0..MaxKeyLines }

\* !pubkey || !pubkey.trim()
IsBlank(pubkey) ==
  \/ pubkey = NullBlob
  \/ \A i \in 1..Len(pubkey) : Trim(pubkey[i]) = << >>

\* the keys writeAuthorizedKeys keeps
ParseKeys(pubkey) ==
  SelectSeq(SelectSeq(MapTrim(pubkey),
                      LAMBDA k : k # << >> /\ ~StartsWith(k, "#")),
            LAMBDA k : StartsWith(k, "ssh-"))

\* `${k} # Added by setup-ssh at ${timestamp}`
Annotate(k) == k \o << " # Added by setup-ssh at ", "timestamp" >>

AuthorizedKeysContent(keys) == [i \in 1..Len(keys) |-> Annotate(keys[i])]

\* the key of a line of authorized_keys, its annotation removed
KeyOf(fileLine) == SubSeq(fileLine, 1, Len(fileLine) - 2)

----------------------------------------------------------------------------
\* The system sshd_config and the files of the user-mode daemon

\* a directive line `Key value`
Directive(key, value) == << key, " ", value >>

\* allowUsers.join(' ')
RECURSIVE Join(_)
Join(names) ==
  IF Len(names) <= 1 THEN names
  ELSE << Head(names), " " >> \o Join(Tail(names))

\* the line without its leading '#' characters
RECURSIVE StripHashes(_)
StripHashes(line) ==
  IF line # << >> /\ Head(line) = "#" THEN StripHashes(Tail(line)) ELSE line

\* the pattern ^#*Key.* of the sed and -replace commands
SedMatches(line, key) == StartsWith(StripHashes(line), key)

\* s/^#*Key.*/setting/ over the lines of the file: matching lines are replaced,
\* nothing is added
SedReplace(file, setting) ==
  [ i \in 1..Len(file) |-> IF SedMatches(file[i], Head(setting)) THEN setting ELSE file[i] ]

\* for (const setting of settings) { sed ... }
RECURSIVE ApplySettings(_, _)
ApplySettings(file, settings) ==
  IF settings = << >> THEN file
  ELSE ApplySettings(SedReplace(file, Head(settings)), Tail(settings))

\* linuxRootMode: settings
RootSettings ==
  << Directive("Port", config.port),
     Directive("PubkeyAuthentication", "yes"),
     Directive("PasswordAuthentication", "no"),
     Directive("PermitRootLogin", IF observed.currentUser = "root" THEN "yes" ELSE "no") >>
  \o (IF Len(config.allowUsers) > 0
        THEN << << "AllowUsers", " " >> \o Join(config.allowUsers) >>
        ELSE << >>)

\* windowsSetup: settings
WindowsSettings ==
  << Directive("Port", config.port),
     Directive("PubkeyAuthentication", "yes"),
     Directive("PasswordAuthentication", "no") >>

\* the Match block linuxRootMode appends with `tee -a`
ForceCommandBlock ==
  << << "Match", " ", "User" >>, << "  ", "ForceCommand", " ", "/bin/bash -lc" >> >>

\* `| sudo tee -a file`: appends, creating the file when it does not exist
TeeAppend(file, lines) == IF file = Absent THEN lines ELSE file \o lines

\* the system sshd_config after the sed loop and the ForceCommand step
RootRewritten(file) ==
  LET replaced == IF file = Absent THEN Absent ELSE ApplySettings(file, RootSettings)
  IN IF config.disableForceCwd THEN replaced ELSE TeeAppend(replaced, ForceCommandBlock)

\* linuxUserMode: baseDir and the files in it
BaseDir == "~/.ssh/ci-sshd"
SystemConfigPath == << "/etc/ssh", "sshd_config" >>

UserConfigPath == << BaseDir, "sshd_config" >>
HostKeyPaths == { << BaseDir, "ssh_host_ed25519_key" >>, << BaseDir, "ssh_host_rsa_key" >> }
PidPath == << BaseDir, "sshd.pid" >>
LogPath == << BaseDir, "sshd.log" >>

\* system sshd_config files the bring-up may find
StockConfig ==
  << << "#", "Port", " ", "22" >>,
     << "#", "PubkeyAuthentication", " ", "yes" >>,
     << "PasswordAuthentication", " ", "yes" >>,
     << "#", "PermitRootLogin", " ", "prohibit-password" >>,
     << "UsePAM", " ", "yes" >> >>
FullConfig == StockConfig \o << << "AllowUsers", " ", "admin" >> >>
BareConfig == << << "#", " ", "Port", " ", "22" >>, << "UsePAM", " ", "yes" >> >>
SystemConfigs == { StockConfig, FullConfig, BareConfig, Absent }

\* nothing has been learnt of the host yet
NothingObserved == [ currentUser |-> "unknown", sudoNoPass |-> "unknown", sshdFound |-> "unknown" ]

----------------------------------------------------------------------------
\* Mode selection of SetupSSH.setup

SelectModeAutoRoot(plat, sshMode) ==
  IF plat = "win32" THEN "windows"
  ELSE IF plat = "linux" THEN (IF sshMode \in {"root", "auto"} THEN "root" ELSE "user")
  ELSE None

SelectMode(plat, sshMode) ==
  IF plat = "win32" THEN "windows"
  ELSE IF plat = "linux" THEN (IF sshMode = "root" THEN "root" ELSE "user")
  ELSE None

----------------------------------------------------------------------------
\* Configuration

Pinggy == 1
SshJ == 2
Cloudflare == 3
Plugins == { Pinggy, SshJ, Cloudflare }

\* the `type` each entry of run()'s tunnels array carries
TunnelType(p) ==
  CASE p = Pinggy -> "Pinggy"
    [] p = SshJ -> "SSH-J"
    [] p = Cloudflare -> "Cloudflare"

Platforms == { "linux", "win32", "darwin" }
\* SSH_MODE values; "bogus" stands for any value validate() rejects
Modes == { "auto", "root", "user", "bogus" }

ValidateErrorsIgnored(cfg) == { }

\* Config.validate: the checks that depend on the modelled settings
ValidateErrors(cfg) ==
  (IF cfg.publicKey = NullBlob \/ cfg.publicKey = << EmptyLine >>
     THEN { "PIPELINE_SSH_PUBKEY is required" } ELSE { })
  \cup (IF cfg.mode \notin { "auto", "root", "user" }
          THEN { "SSH_MODE must be: auto, root, or user" } ELSE { })
  \cup (IF cfg.tunnels[Cloudflare].enabled /\ ~cfg.tunnels[Cloudflare].apiKey
          THEN { "CLOUDFLARED_APIKEY is required when CF_ENABLE=1" } ELSE { })

\* Values of the state before anything has run

\* no error has been thrown
NoError == [ name |-> None, message |-> None ]
NoProbe == [ port |-> None, ready |-> FALSE ]
\* results as run() initialises it; the fields of ssh it does not set are undefined
NoResults ==
  [ ssh |-> [ success |-> FALSE, error |-> None, mode |-> None, port |-> None,
              logPath |-> None, pid |-> NoPid ],
    tunnels |-> << >> ]
NoTun == [ pid |-> NoPid, endpoint |-> None, logFile |-> None ]
NoSshResult == [ mode |-> None, port |-> None, pid |-> NoPid, logPath |-> None ]
\* start() has not been invoked
NotCalled == "not called"
\* the value of a variable that was never assigned
Undefined == "undefined"
\* no retryWithBackoff call in progress
NoRetry ==
  [ state |-> "idle", maxRetries |-> 0, initialDelay |-> 0, maxDelay |-> 0, factor |-> 0,
    attempt |-> 0, lastError |-> Undefined, outcomes |-> << >>, delays |-> << >>,
    result |-> None ]
\* healthCheck() has not been called
NoHealth == << >>
\* printSummary has not run
NoSummary == << >>
\* run() called without options; an absent or empty option is falsy
NoOptions == [ sshPort |-> None, sshMode |-> None, publicKey |-> << >>, tunnels |-> << >> ]
\* a host with every tool, run outside GitHub Actions
PlainHost == [ probeTool |-> "nc", sshClient |-> TRUE, cloudflared |-> TRUE, githubEnv |-> FALSE ]
\* the null a task resolves to when its plugin is not available
NullOutcome == [ kind |-> "null" ]
\* a task that has not settled
Pending == [ kind |-> "pending" ]

----------------------------------------------------------------------------
\* SSH bring-up: SetupSSH.setup and the three modes

\* utils.writeFileSafe: the file's new content
WriteFileSafeSkipped(old, content) == old

WriteFileSafe(old, content) == content

SetupFail(name, message) ==
  /\ sshError' = [ name |-> name, message |-> message ]
  /\ pc' = "setup_failed"

\* writeAuthorizedKeys(config.ssh.publicKey), the first statement of setup()
WriteAuthorizedKeysStep ==
  /\ pc = "setup"
  /\ LET pubkey == config.publicKey IN
     IF IsBlank(pubkey)
       THEN /\ SetupFail("SSHDError", "SSHD error: PIPELINE_SSH_PUBKEY is required")
            /\ UNCHANGED authKeys
       ELSE LET keys == ParseKeys(pubkey) IN
            IF Len(keys) = 0
              THEN /\ SetupFail("SSHDError", "SSHD error: No valid SSH keys found")
                   /\ UNCHANGED authKeys
              ELSE /\ authKeys' = WriteFileSafe(authKeys, AuthorizedKeysContent(keys))
                   /\ pc' = "dispatch"
                   /\ UNCHANGED sshError
  /\ UNCHANGED << selected, daemonStarts, probe, probePolls, sshdPid, sshResult >>
  /\ UNCHANGED << envVars, auxVars, config, results, exitCode, tunnelVars, hostVars >>

\* the platform/mode branch of setup()
Dispatch ==
  /\ pc = "dispatch"
  /\ LET m == SelectMode(platform, config.mode) IN
     /\ selected' = m
     /\ IF m = None
          THEN SetupFail("SSHDError", "SSHD error: Unsupported platform")
          ELSE /\ pc' = (CASE m = "user" -> "user_prepare"
                           [] m = "root" -> "root_perm"
                           [] m = "windows" -> "win_ensure")
               /\ UNCHANGED sshError
  /\ UNCHANGED << authKeys, daemonStarts, probe, probePolls, sshdPid, sshResult >>
  /\ UNCHANGED << envVars, auxVars, config, results, exitCode, tunnelVars, hostVars >>

\* linuxUserMode up to the daemon's config file: sshd present or installed
\* through sudo, host keys generated, config rendered and written
UserPrepare ==
  /\ pc = "user_prepare"
  /\ \E sshdExists \in BOOLEAN, pkgMgr \in { "apt-get", "yum", None }, keygenOk \in BOOLEAN :
       /\ observed' = [ observed EXCEPT !.sshdFound = IF sshdExists THEN "yes" ELSE "no" ]
       /\ elevated' = (elevated \/ (~sshdExists /\ pkgMgr # None))
       /\ IF ~sshdExists /\ pkgMgr = None
            THEN /\ SetupFail("SSHDError", "SSHD error: sshd not found and cannot auto-install")
                 /\ UNCHANGED written
          ELSE IF ~keygenOk
            THEN /\ SetupFail("Error", "Command failed: ssh-keygen")
                 /\ UNCHANGED written
          ELSE /\ written' = written \cup HostKeyPaths \cup { UserConfigPath }
               /\ pc' = "user_spawn"
               /\ UNCHANGED sshError
  /\ UNCHANGED << authKeys, selected, daemonStarts, probe, probePolls, sshdPid, sshResult >>
  /\ UNCHANGED << sshdConfig, origConfig, backups, serviceOps >>
  /\ UNCHANGED << envVars, auxVars, config, results, exitCode, tunnelVars >>

\* linuxUserMode: spawnDetached(sshd, ['-f', cfgPath, '-D'], logPath), PID file
UserSpawn ==
  /\ pc = "user_spawn"
  /\ daemonStarts' = daemonStarts + 1
  /\ sshdPid' = nextPid
  /\ nextPid' = nextPid + 1
  /\ written' = written \cup { LogPath, PidPath }
  /\ pc' = "probe"
  /\ UNCHANGED << authKeys, selected, probe, probePolls, sshError, sshResult >>
  /\ UNCHANGED << sshdConfig, origConfig, observed, backups, serviceOps, elevated >>
  /\ UNCHANGED << envVars, auxVars, config, results, exitCode, plugVars >>

RootCheckPermissionSkipped ==
  /\ pc = "root_perm"
  /\ \E isRoot \in BOOLEAN, sudoNoPass \in BOOLEAN :
       observed' = [ observed EXCEPT
                       !.currentUser = IF isRoot THEN "root" ELSE "runner",
                       !.sudoNoPass = IF isRoot THEN "unknown"
                                      ELSE IF sudoNoPass THEN "yes" ELSE "no" ]
  /\ pc' = "root_rewrite"
  /\ UNCHANGED << authKeys, selected, daemonStarts, probe, probePolls, sshdPid, sshError,
                  sshResult >>
  /\ UNCHANGED << sshdConfig, origConfig, backups, serviceOps, written, elevated >>
  /\ UNCHANGED << envVars, auxVars, config, results, exitCode, tunnelVars >>

\* linuxRootMode: the permission check; hasSudoNoPass() is evaluated only when
\* the user is not root
RootCheckPermission ==
  /\ pc = "root_perm"
  /\ \E isRoot \in BOOLEAN, sudoNoPass \in BOOLEAN :
       /\ observed' = [ observed EXCEPT
                          !.currentUser = IF isRoot THEN "root" ELSE "runner",
                          !.sudoNoPass = IF isRoot THEN "unknown"
                                         ELSE IF sudoNoPass THEN "yes" ELSE "no" ]
       /\ IF ~isRoot /\ ~sudoNoPass
            THEN SetupFail("PermissionError",
                           "Permission error: Root mode requires root user or sudo without password")
            ELSE /\ pc' = "root_rewrite"
                 /\ UNCHANGED sshError
  /\ UNCHANGED << authKeys, selected, daemonStarts, probe, probePolls, sshdPid, sshResult >>
  /\ UNCHANGED << sshdConfig, origConfig, backups, serviceOps, written, elevated >>
  /\ UNCHANGED << envVars, auxVars, config, results, exitCode, tunnelVars >>

\* linuxRootMode: backup, sed rewrite and ForceCommand block, every command
\* through sudo and ignoreError; for root, sudo itself may be missing
RootRewrite ==
  /\ pc = "root_rewrite"
  /\ \E sudoWorks \in (IF observed.sudoNoPass = "yes" THEN { TRUE } ELSE BOOLEAN) :
       /\ backups' = IF sshdConfig # Absent /\ sudoWorks THEN backups + 1 ELSE backups
       /\ sshdConfig' = IF sudoWorks THEN RootRewritten(sshdConfig) ELSE sshdConfig
  /\ elevated' = TRUE
  /\ pc' = "root_restart"
  /\ UNCHANGED << authKeys, selected, daemonStarts, probe, probePolls, sshdPid, sshError,
                  sshResult >>
  /\ UNCHANGED << origConfig, observed, serviceOps, written >>
  /\ UNCHANGED << envVars, auxVars, config, results, exitCode, tunnelVars >>

\* linuxRootMode: systemctl restart sshd; service sshd restart (ignoreError)
RootRestart ==
  /\ pc = "root_restart"
  /\ daemonStarts' = daemonStarts + 1
  /\ serviceOps' = serviceOps + 1
  /\ pc' = "probe"
  /\ UNCHANGED << authKeys, selected, probe, probePolls, sshdPid, sshError, sshResult >>
  /\ UNCHANGED << sshdConfig, origConfig, observed, backups, written, elevated >>
  /\ UNCHANGED << envVars, auxVars, config, results, exitCode, tunnelVars >>

\* windowsSetup: install the capability if sshd is missing, Start-Service, Set-Service
WindowsEnsure ==
  /\ pc = "win_ensure"
  /\ \E sshdExists \in BOOLEAN, installOk \in BOOLEAN :
       /\ observed' = [ observed EXCEPT !.sshdFound = IF sshdExists THEN "yes" ELSE "no" ]
       /\ IF ~sshdExists /\ ~installOk
            THEN /\ SetupFail("Error", "Command failed: Add-WindowsCapability")
                 /\ UNCHANGED << daemonStarts, serviceOps >>
            ELSE /\ daemonStarts' = daemonStarts + 1
                 /\ serviceOps' = serviceOps + 1
                 /\ pc' = "win_configure"
                 /\ UNCHANGED sshError
  /\ UNCHANGED << authKeys, selected, probe, probePolls, sshdPid, sshResult >>
  /\ UNCHANGED << sshdConfig, origConfig, backups, written, elevated >>
  /\ UNCHANGED << envVars, auxVars, config, results, exitCode, tunnelVars >>

\* windowsSetup: the Get-Content/-replace/Set-Content rewrite (ignoreError); on a
\* missing file Set-Content may leave an empty file behind
WindowsConfigure ==
  /\ pc = "win_configure"
  /\ \E commandOk \in BOOLEAN :
       sshdConfig' \in
         IF ~commandOk THEN { sshdConfig }
         ELSE IF sshdConfig = Absent THEN { Absent, << EmptyLine >> }
         ELSE { ApplySettings(sshdConfig, WindowsSettings) }
  /\ pc' = "win_restart"
  /\ UNCHANGED << authKeys, selected, daemonStarts, probe, probePolls, sshdPid, sshError,
                  sshResult >>
  /\ UNCHANGED << origConfig, observed, backups, serviceOps, written, elevated >>
  /\ UNCHANGED << envVars, auxVars, config, results, exitCode, tunnelVars >>

\* windowsSetup: Restart-Service sshd, whose failure is not ignored
WindowsRestart ==
  /\ pc = "win_restart"
  /\ \E restartOk \in BOOLEAN :
       IF ~restartOk
         THEN /\ SetupFail("Error", "Command failed: Restart-Service sshd")
              /\ UNCHANGED << daemonStarts, serviceOps >>
         ELSE /\ daemonStarts' = daemonStarts + 1
              /\ serviceOps' = serviceOps + 1
              /\ pc' = "probe"
              /\ UNCHANGED sshError
  /\ UNCHANGED << authKeys, selected, probe, probePolls, sshdPid, sshResult >>
  /\ UNCHANGED << sshdConfig, origConfig, observed, backups, written, elevated >>
  /\ UNCHANGED << envVars, auxVars, config, results, exitCode, tunnelVars >>

\* the tools waitPortLocalhost looks for on PATH, in this order
ProbeTools == { "nc", "ss", "netstat", "none" }

\* one look at the port: nc connects, ss and netstat list the listening sockets;
\* with none of the three on PATH the iteration checks nothing
ProbeCheck(tool, listening) == tool \in { "nc", "ss", "netstat" } /\ listening

\* the daemon that was started binds the port
PortOpens ==
  /\ pc = "probe"
  /\ daemonStarts > 0
  /\ ~portListening
  /\ portListening' = TRUE
  /\ UNCHANGED << envVars, config, pc, results, exitCode, sshVars, tunnelVars >>
  /\ UNCHANGED << retry, remoteVars, fileVars, invocations, reportVars >>

\* waitPortLocalhost: one iteration of the loop, before the timeout has elapsed
ProbePoll ==
  /\ pc = "probe"
  /\ probePolls < MaxPolls
  /\ LET open == ProbeCheck(host.probeTool, portListening) IN
       IF open
         THEN /\ probe' = [ port |-> config.port, ready |-> TRUE ]
              /\ pc' = "mode_return"
              /\ UNCHANGED probePolls
         ELSE /\ probePolls' = probePolls + 1
              /\ UNCHANGED << probe, pc >>
  /\ UNCHANGED << authKeys, selected, daemonStarts, sshdPid, sshError, sshResult >>
  /\ UNCHANGED << envVars, auxVars, config, results, exitCode, tunnelVars, hostVars >>

\* waitPortLocalhost: the loop ends with the timeout elapsed
ProbeTimeout ==
  /\ pc = "probe"
  /\ probePolls = MaxPolls
  /\ probe' = [ port |-> config.port, ready |-> FALSE ]
  /\ pc' = "mode_return"
  /\ UNCHANGED << authKeys, selected, daemonStarts, probePolls, sshdPid, sshError, sshResult >>
  /\ UNCHANGED << envVars, auxVars, config, results, exitCode, tunnelVars, hostVars >>

\* the object each mode returns
ModeResult(m) ==
  IF m = "user"
    THEN [ mode |-> "user", port |-> config.port, pid |-> sshdPid,
           logPath |-> "~/.ssh/ci-sshd/sshd.log" ]
    ELSE [ mode |-> m, port |-> config.port, pid |-> NoPid, logPath |-> None ]

ModeReturnUnchecked ==
  /\ pc = "mode_return"
  /\ sshResult' = ModeResult(selected)
  /\ pc' = "setup_ok"
  /\ probePolls' = 0
  /\ UNCHANGED << authKeys, selected, daemonStarts, probe, sshdPid, sshError >>
  /\ UNCHANGED << envVars, auxVars, config, results, exitCode, tunnelVars, hostVars >>

\* the end of each mode: `if (!ready) throw new SSHDError(...)`, else the result;
\* the probe's loop state is gone with its call
ModeReturn ==
  /\ pc = "mode_return"
  /\ IF probe.ready
       THEN /\ sshResult' = ModeResult(selected)
            /\ pc' = "setup_ok"
            /\ UNCHANGED sshError
       ELSE /\ SetupFail("SSHDError", "SSHD error: Port is not listening")
            /\ UNCHANGED sshResult
  /\ probePolls' = 0
  /\ UNCHANGED << authKeys, selected, daemonStarts, probe, sshdPid >>
  /\ UNCHANGED << envVars, auxVars, config, results, exitCode, tunnelVars, hostVars >>

SetupNext ==
  \/ WriteAuthorizedKeysStep
  \/ Dispatch
  \/ UserPrepare
  \/ UserSpawn
  \/ RootCheckPermission
  \/ RootRewrite
  \/ RootRestart
  \/ WindowsEnsure
  \/ WindowsConfigure
  \/ WindowsRestart
  \/ PortOpens
  \/ ProbePoll
  \/ ProbeTimeout
  \/ ModeReturn

----------------------------------------------------------------------------
\* retryWithBackoff

\* longest retry budget a caller passes
MaxRetries == 7

\* start() sequences a program runs on one machine
MaxInvocations == 2

\* the default of options.maxRetries
DefaultMaxRetries == 3

\* Math.pow(base, exponent) for a whole exponent
RECURSIVE Pow(_, _)
Pow(base, exponent) == IF exponent = 0 THEN 1 ELSE base * Pow(base, exponent - 1)

\* Math.min(a, b)
Min(a, b) == IF a < b THEN a ELSE b

BackoffDelayFromOne(initialDelay, factor, attempt, maxDelay) ==
  Min(initialDelay * Pow(factor, attempt + 1), maxDelay)

\* the delay after the failure of attempt number `attempt`, counted from 0
BackoffDelay(initialDelay, factor, attempt, maxDelay) ==
  Min(initialDelay * Pow(factor, attempt), maxDelay)

ThrownWrapped(lastError) == "Retries exhausted"

\* `throw lastError` after the loop
ThrownError(lastError) == lastError

\* retryWithBackoff(fn, options) up to the first `await fn()`; with no attempt
\* allowed the loop body never runs and lastError is thrown unassigned
RetryBegin(maxRetries, initialDelay, maxDelay, factor) ==
  [ state |-> IF maxRetries > 0 THEN "calling" ELSE "thrown",
    maxRetries |-> maxRetries, initialDelay |-> initialDelay, maxDelay |-> maxDelay,
    factor |-> factor, attempt |-> 0, lastError |-> Undefined, outcomes |-> << >>,
    delays |-> << >>,
    result |-> IF maxRetries > 0 THEN None ELSE ThrownError(Undefined) ]

\* what one call of fn can do: return a value or throw an error. The fn of
\* downloadBinary returns nothing or throws what curl, wget or the size check threw
FnOutcomes ==
  IF entry = "retry"
    THEN { [ ok |-> TRUE, v |-> "value" ], [ ok |-> FALSE, v |-> "E1" ],
           [ ok |-> FALSE, v |-> "E2" ] }
    ELSE { [ ok |-> TRUE, v |-> Undefined ],
           [ ok |-> FALSE, v |-> "Downloaded file is empty or missing" ] }

\* the loop body after fn settled with `out`
RetryStep(r, out) ==
  IF out.ok
    THEN [ r EXCEPT !.state = "returned", !.result = out.v,
                    !.outcomes = Append(@, out) ]
  ELSE IF r.attempt = r.maxRetries - 1
    THEN [ r EXCEPT !.state = "thrown", !.lastError = out.v,
                    !.result = ThrownError(out.v), !.outcomes = Append(@, out) ]
    ELSE [ r EXCEPT !.state = "sleeping", !.lastError = out.v,
                    !.outcomes = Append(@, out),
                    !.delays = Append(@, BackoffDelay(r.initialDelay, r.factor,
                                                      r.attempt, r.maxDelay)) ]

\* the Cloudflare task is inside downloadBinary's attempt (execSync of curl or
\* wget) or in the synchronous code that follows it: the event loop is held
Downloading ==
  tpc[Cloudflare] = "installing" /\ retry.state \in { "calling", "returned", "thrown" }

\* code of another task, or of the main task, can run
CanRun == ~Downloading

\* timers and child events are delivered: the loop is not held and no uncaught
\* 'error' event is about to end the process
TimersRun == ~Downloading /\ ~spawnError

\* `await fn()` settles
RetryFnDone ==
  /\ retry.state = "calling"
  /\ entry = "retry" \/ (pc = "await_tunnels" /\ tpc[Cloudflare] = "installing")
  /\ \E out \in FnOutcomes : retry' = RetryStep(retry, out)
  /\ UNCHANGED << envVars, config, pc, results, exitCode, sshVars, tunnelVars >>
  /\ UNCHANGED << portListening, remoteVars, fileVars, invocations, reportVars >>

\* `await sleep(delay)` is over: attempt++ and the next `await fn()`
RetryWake ==
  /\ retry.state = "sleeping"
  /\ entry = "retry" \/ (pc = "await_tunnels" /\ tpc[Cloudflare] = "installing" /\ TimersRun)
  /\ retry' = [ retry EXCEPT !.state = "calling", !.attempt = @ + 1 ]
  /\ UNCHANGED << envVars, config, pc, results, exitCode, sshVars, tunnelVars >>
  /\ UNCHANGED << portListening, remoteVars, fileVars, invocations, reportVars >>

RetryNext ==
  \/ RetryFnDone
  \/ RetryWake

----------------------------------------------------------------------------
\* sanitizeId and the identifiers generated from it

\* length of the strings sanitizeId is called with
MaxIdLen == 4

\* no sanitizeId call yet
NoIds ==
  [ state |-> "idle", s |-> << >>, maxLen |-> 0, out |-> << >>, repoName |-> << >>,
    runnerId |-> << >>, namespace |-> << >>, device |-> << >>, tunnelName |-> << >> ]

\* the characters the calls are made of: "A" has a lower case, "!" and " " are
\* not matched by [\w.-]
IdChars == { "a", "A", "-", ".", "!" }

\* .toLowerCase()
ToLowerCase(s) == [ i \in 1..Len(s) |-> IF s[i] = "A" THEN "a" ELSE s[i] ]

\* .replace(/[^\w.-]+/g, '-'): a run of characters outside [\w.-] becomes one '-'
RECURSIVE ReplaceOthers(_)
ReplaceOthers(s) ==
  IF s = << >> THEN << >>
  ELSE IF s[1] \notin { "!", " " } THEN << s[1] >> \o ReplaceOthers(Tail(s))
  ELSE IF Len(s) > 1 /\ s[2] \in { "!", " " } THEN ReplaceOthers(Tail(s))
  ELSE << "-" >> \o ReplaceOthers(Tail(s))

\* .replace(/-+/g, '-')
RECURSIVE CollapseDashes(_)
CollapseDashes(s) ==
  IF s = << >> THEN << >>
  ELSE IF s[1] = "-" /\ Len(s) > 1 /\ s[2] = "-" THEN CollapseDashes(Tail(s))
  ELSE << s[1] >> \o CollapseDashes(Tail(s))

\* .replace(/^[.-]+|[.-]+$/g, '')
RECURSIVE TrimEnds(_)
TrimEnds(s) ==
  IF s # << >> /\ s[1] \in { ".", "-" } THEN TrimEnds(Tail(s))
  ELSE IF s # << >> /\ s[Len(s)] \in { ".", "-" } THEN TrimEnds(SubSeq(s, 1, Len(s) - 1))
  ELSE s

\* x.slice(0, maxLen): a negative maxLen counts from the end
Slice(x, maxLen) ==
  LET end == IF maxLen >= 0 THEN Min(maxLen, Len(x)) ELSE Len(x) + maxLen
  IN IF end <= 0 THEN << >> ELSE SubSeq(x, 1, end)

\* sanitizeId(s, maxLen)
SanitizeId(s, maxLen) ==
  LET x == TrimEnds(CollapseDashes(ReplaceOthers(ToLowerCase(s))))
      trimmed == Slice(x, maxLen)
  IN IF trimmed = << >> THEN << "c", "i" >> ELSE trimmed

\* utils.sanitizeId(s, maxLen) called by a program
SanitizeCall ==
  /\ entry = "ids"
  /\ ids.state = "idle"
  /\ ids' = [ ids EXCEPT !.state = "sanitized", !.out = SanitizeId(ids.s, ids.maxLen) ]
  /\ UNCHANGED << envVars, config, pc, results, exitCode, sshVars, tunnelVars >>
  /\ UNCHANGED << portListening, retry, remoteVars, fileVars, invocations, summary, killedBy, logOwner >>

\* SshjTunnel.buildDefaults() and the tunnel name CloudflareTunnel.start() generates
GenerateIds ==
  /\ entry = "ids"
  /\ ids.state = "sanitized"
  /\ LET repo == SanitizeId(ids.repoName, 18)
         rid == SanitizeId(ids.runnerId, 10)
     IN ids' = [ ids EXCEPT !.state = "generated",
                            !.namespace = SanitizeId(repo \o << "-" >> \o rid, 28),
                            !.device = SanitizeId(repo \o << "-", "c", "i" >>, 24),
                            !.tunnelName = repo \o << "-" >> \o rid ]
  /\ UNCHANGED << envVars, config, pc, results, exitCode, sshVars, tunnelVars >>
  /\ UNCHANGED << portListening, retry, remoteVars, fileVars, invocations, summary, killedBy, logOwner >>

IdsNext == SanitizeCall \/ GenerateIds

----------------------------------------------------------------------------
\* Tunnel plugins

\* isAvailable(): Pinggy and SSH-J read `enabled`; Cloudflare also needs the API key
IsAvailable(p) ==
  IF p = Cloudflare
    THEN config.tunnels[p].enabled /\ config.tunnels[p].apiKey
    ELSE config.tunnels[p].enabled

\* run(): the first argument of instance.start(results.ssh.port, logDir)
StartPortDefault == "2222"

StartPort == results.ssh.port

\* run(): the directory of the SSH log when there is one, else ~/.ssh
LogDir == IF results.ssh.logPath # None THEN "~/.ssh/ci-sshd" ELSE "~/.ssh"

\* path.join(logDir, '<plugin>.log')
LogFile(p) ==
  << LogDir, CASE p = Pinggy -> "pinggy.log"
               [] p = SshJ -> "sshj.log"
               [] p = Cloudflare -> "cloudflared.log" >>
NoFile == << None, None >>

\* the endpoint line each backend prints once its tunnel is up
EndpointLine(p) ==
  CASE p = Pinggy -> "tcp://rnd.a.pinggy.link:40000"
    [] p = Cloudflare -> "https://0a1b2c.cfargotunnel.com"
    [] p = SshJ -> None

\* the log file spawnDetached has opened for appending, before the backend wrote
EmptyLog == << >>

\* what a backend prints, as the file's text in pieces: a banner, the endpoint
\* and the rest of the line; Pinggy may print a tcp:// URL that carries no port
LogContents(p) ==
  { << "Connecting... ", url, " is ready" >> :
      url \in { EndpointLine(p) } \cup
              (IF p = Pinggy THEN { "tcp://rnd.a.pinggy.link" } ELSE { }) }

\* pattern.test(piece) for the pattern start() passes to parseEndpointFromLog:
\* /tcp:\/\/[^\s]+/ for Pinggy, /https:\/\/[a-f0-9-]+\.cfargotunnel\.com/i for Cloudflare
PatternMatches(p, piece) ==
  CASE p = Pinggy -> piece \in { "tcp://rnd.a.pinggy.link:40000", "tcp://rnd.a.pinggy.link" }
    [] p = Cloudflare -> piece = "https://0a1b2c.cfargotunnel.com"
    [] OTHER -> FALSE

LogMatchFirstPiece(p, content) == IF content = << >> THEN None ELSE content[1]

\* content.match(pattern): match[0], the first matched text, or None
LogMatch(p, content) ==
  LET hits == SelectSeq(content, LAMBDA piece : PatternMatches(p, piece))
  IN IF hits = << >> THEN None ELSE hits[1]

\* SSH-J: the namespace and device of the configuration, None when not set
ConfigNamespace == IF config.tunnels[SshJ].ids THEN "ns" ELSE None
ConfigDevice == IF config.tunnels[SshJ].ids THEN "device" ELSE None

\* SSH-J start(): sshj.namespace || defaults.namespace, sshj.device || defaults.device
StartNamespace == IF ConfigNamespace # None THEN ConfigNamespace ELSE "repo-runner"
StartDevice == IF ConfigDevice # None THEN ConfigDevice ELSE "repo-ci"

\* `ssh -J ${namespace}@${host} ${currentUser}@${device}` with host ssh-j.com
SshjConnect(namespace, device) ==
  CASE namespace = "ns" /\ device = "device" -> "ssh -J ns@ssh-j.com user@device"
    [] namespace = "repo-runner" /\ device = "repo-ci" ->
         "ssh -J repo-runner@ssh-j.com user@repo-ci"
    [] OTHER -> "ssh -J <namespace>@ssh-j.com user@<device>"

\* nothing has been handed to setPipelineVar
NoPipelineVars == [ SSHJ_NAMESPACE |-> None, SSHJ_DEVICE |-> None, SSHJ_CONNECT |-> None ]

GetConnectCommandFromConfig(p, endpoint) ==
  IF config.tunnels[p].enabled THEN SshjConnect(StartNamespace, StartDevice) ELSE None

\* getConnectCommand() of each plugin, on the instance's endpoint
GetConnectCommand(p, endpoint) ==
  CASE p = Pinggy ->
         \* null without an endpoint and when /tcp:\/\/([^:]+):(\d+)/ does not match
         IF endpoint = "tcp://rnd.a.pinggy.link:40000"
           THEN "ssh -p 40000 user@rnd.a.pinggy.link -i <your-private-key>"
           ELSE None
    [] p = Cloudflare ->
         IF endpoint = None THEN None
         ELSE "ssh -o ProxyCommand=\"cloudflared access tcp --hostname https://0a1b2c.cfargotunnel.com\" user@https://0a1b2c.cfargotunnel.com"
    [] p = SshJ ->
         IF ConfigNamespace = None \/ ConfigDevice = None THEN None
         ELSE SshjConnect(ConfigNamespace, ConfigDevice)

\* run(): the object a task returns after start() has returned `result`
SuccessOutcome(p, endpoint, pid, logFile) ==
  [ kind |-> "outcome", tunnelType |-> TunnelType(p), success |-> TRUE,
    endpoint |-> endpoint, connectCommand |-> GetConnectCommand(p, endpoint),
    pid |-> pid, logFile |-> logFile, error |-> None ]

\* run(): the object a task returns from its catch block
FailedOutcome(p, message) ==
  [ kind |-> "outcome", tunnelType |-> TunnelType(p), success |-> FALSE,
    endpoint |-> None, connectCommand |-> None, pid |-> NoPid, logFile |-> NoFile,
    error |-> message ]

\* the task of plugin p resolves to o; the log probe's loop state is gone with it
Settle(p, o) ==
  /\ polls' = [ polls EXCEPT ![p] = 0 ]
  /\ outcome' = [ outcome EXCEPT ![p] = o ]
  /\ tpc' = [ tpc EXCEPT ![p] = "settled" ]
  /\ firstDone' = IF firstDone = 0 THEN p ELSE firstDone

\* run(): tunnels.map(async ...) runs each callback up to `await instance.isAvailable()`
LaunchTunnels ==
  /\ pc = "tunnels"
  /\ tpc' = [ p \in Plugins |-> "avail" ]
  /\ availCalled' = Plugins
  /\ pc' = "await_tunnels"
  /\ UNCHANGED << nextPid, tun, startArg, polls, logs, outcome, firstDone, fgChildren,
                  signalled, timedOut, callVars >>
  /\ UNCHANGED << envVars, auxVars, config, results, exitCode, sshVars >>

\* run(): the else branch, `return null`
TaskUnavailable(p) ==
  /\ pc = "await_tunnels"
  /\ tpc[p] = "avail"
  /\ ~IsAvailable(p)
  /\ CanRun
  /\ Settle(p, NullOutcome)
  /\ UNCHANGED << nextPid, tun, startArg, availCalled, logs, fgChildren, signalled, timedOut, callVars >>
  /\ UNCHANGED << envVars, auxVars, config, pc, results, exitCode, sshVars >>

PidFilePathShared(p) == << LogDir, "tunnel.pid" >>

\* path.join(logDir, '<plugin>.pid')
PidFilePath(p) ==
  << LogDir, CASE p = Pinggy -> "pinggy.pid"
               [] p = SshJ -> "sshj.pid"
               [] p = Cloudflare -> "cloudflared.pid" >>

\* ~/.cloudflared/cert.pem, ~/.cloudflared/config.yml and the download target
CertPath == << "~/.cloudflared", "cert.pem" >>
CfConfigPath == << "~/.cloudflared", "config.yml" >>
DownloadPath == << "/tmp", "cloudflared" >>

\* hostrunner.setPipelineVar appends to the file GITHUB_ENV names, when it is set
GithubEnvPath == << "$GITHUB_ENV", "" >>
PipelineFiles == IF host.githubEnv THEN { GithubEnvPath } ELSE { }

\* spawn(cmd) finds its command: Pinggy and SSH-J run the ssh client, Cloudflare
\* runs cloudflared, which install() has made sure of
Launches(p) == IF p = Cloudflare THEN TRUE ELSE host.sshClient

StartForegroundNoReturn(p, files) ==
  /\ fgChildren' = fgChildren \cup { p }
  /\ tpc' = [ tpc EXCEPT ![p] = "replaced" ]
  /\ UNCHANGED << nextPid, tun, polls, outcome, firstDone, fileVars >>

\* start() in foreground mode: spawn with inherited stdio, exit handler, return;
\* a child that could not be spawned emits 'error', which nothing listens to
StartForeground(p, files) ==
  /\ fgChildren' = fgChildren \cup { p }
  /\ tun' = [ tun EXCEPT ![p].logFile = LogFile(p) ]
  /\ pluginFiles' = [ pluginFiles EXCEPT ![p] = @ \cup files ]
  /\ spawnError' = (spawnError \/ ~Launches(p))
  /\ Settle(p, SuccessOutcome(p, tun[p].endpoint, NoPid, NoFile))
  /\ UNCHANGED << nextPid, pidFile >>

\* start() fails: the task's catch block
StartThrows(p, message, files) ==
  /\ Settle(p, FailedOutcome(p, message))
  /\ pluginFiles' = [ pluginFiles EXCEPT ![p] = @ \cup files ]
  /\ UNCHANGED << nextPid, tun, fgChildren, pidFile, spawnError >>

\* child.pid of spawnDetached: undefined when the command could not be spawned
SpawnedPid(p) == IF Launches(p) THEN nextPid ELSE NoPid

\* spawnDetached(cmd, args, this.logFile) returned: this.pid = child.pid
SpawnDetached(p) ==
  /\ tun' = [ tun EXCEPT ![p] = [ pid |-> SpawnedPid(p), endpoint |-> None,
                                  logFile |-> LogFile(p) ] ]
  /\ nextPid' = IF Launches(p) THEN nextPid + 1 ELSE nextPid
  /\ spawnError' = (spawnError \/ ~Launches(p))

\* start() fails after spawnDetached returned: writing the PID file throws
SpawnedThenThrows(p, message, files) ==
  /\ SpawnDetached(p)
  /\ pluginFiles' = [ pluginFiles EXCEPT ![p] = @ \cup files \cup { LogFile(p) } ]
  /\ Settle(p, FailedOutcome(p, message))
  /\ UNCHANGED << fgChildren, pidFile >>

\* spawnDetached and fs.writeFileSync(pidFile, String(this.pid))
SpawnedWithPidFile(p, files) ==
  /\ SpawnDetached(p)
  /\ pidFile' = [ pidFile EXCEPT ![p] = << SpawnedPid(p) >> ]
  /\ pluginFiles' = [ pluginFiles EXCEPT ![p] =
                        @ \cup files \cup { LogFile(p), PidFilePath(p) } ]
  /\ UNCHANGED fgChildren

\* ... and start() goes on to parseEndpointFromLog
SpawnedToProbe(p, files) ==
  /\ SpawnedWithPidFile(p, files)
  /\ tpc' = [ tpc EXCEPT ![p] = "polling" ]
  /\ UNCHANGED << polls, outcome, firstDone >>

\* PinggyTunnel.start(results.ssh.port, logDir) up to the log probe
PinggyStart ==
  /\ pc = "await_tunnels"
  /\ tpc[Pinggy] = "avail"
  /\ IsAvailable(Pinggy)
  /\ CanRun
  /\ startArg' = [ startArg EXCEPT ![Pinggy] = StartPort ]
  /\ IF config.tunnels[Pinggy].foreground
       THEN StartForeground(Pinggy, { })
       ELSE \E spawnOk \in BOOLEAN, pidFileOk \in BOOLEAN :
              IF ~spawnOk
                THEN StartThrows(Pinggy, "EACCES: pinggy.log", { })
              ELSE IF ~pidFileOk
                THEN SpawnedThenThrows(Pinggy, "ENOSPC: pinggy.pid", { })
                ELSE SpawnedToProbe(Pinggy, { })
  /\ UNCHANGED << availCalled, logs, signalled, timedOut, callVars >>
  /\ UNCHANGED << portListening, retry, remoteVars, invocations, reportVars >>
  /\ UNCHANGED << envVars, config, pc, results, exitCode, sshVars >>

\* SshjTunnel.start(results.ssh.port, logDir): pipeline variables, spawn, no log probe
SshjStart ==
  /\ pc = "await_tunnels"
  /\ tpc[SshJ] = "avail"
  /\ IsAvailable(SshJ)
  /\ CanRun
  /\ startArg' = [ startArg EXCEPT ![SshJ] = StartPort ]
  /\ LET early == [ pipelineVars EXCEPT !.SSHJ_NAMESPACE = StartNamespace,
                                         !.SSHJ_DEVICE = StartDevice ]
     IN
     IF config.tunnels[SshJ].foreground
       THEN /\ StartForeground(SshJ, PipelineFiles)
            /\ pipelineVars' = early
       ELSE \E spawnOk \in BOOLEAN, pidFileOk \in BOOLEAN :
              IF ~spawnOk
                THEN /\ StartThrows(SshJ, "EACCES: sshj.log", PipelineFiles)
                     /\ pipelineVars' = early
              ELSE IF ~pidFileOk
                THEN /\ SpawnedThenThrows(SshJ, "ENOSPC: sshj.pid", PipelineFiles)
                     /\ pipelineVars' = early
                ELSE /\ pipelineVars' =
                          [ early EXCEPT !.SSHJ_CONNECT = SshjConnect(StartNamespace, StartDevice) ]
                     /\ SpawnedWithPidFile(SshJ, PipelineFiles)
                     /\ Settle(SshJ, SuccessOutcome(SshJ, None, SpawnedPid(SshJ), LogFile(SshJ)))
  /\ UNCHANGED << availCalled, logs, signalled, timedOut, stopReturn, connectReturn,
                  healthReturn >>
  /\ UNCHANGED << portListening, retry, remoteVars, invocations, reportVars >>
  /\ UNCHANGED << envVars, config, pc, results, exitCode, sshVars >>

\* CloudflareTunnel.start() after install(): cert.pem, findTunnelId, createTunnel
\* when no tunnel of the name was found, config.yml, spawn. A listing that fails
\* reads as an empty list; a create for a name that exists is refused
CloudflareProvision(files) ==
  \E listOk \in BOOLEAN, createOk \in BOOLEAN, spawnOk \in BOOLEAN, pidFileOk \in BOOLEAN :
    LET found == listOk /\ remoteTunnel
        created == ~found /\ ~remoteTunnel /\ createOk
        certFiles == files \cup { CertPath }
        allFiles == certFiles \cup { CfConfigPath }
    IN /\ creates' = IF found THEN creates ELSE creates + 1
       /\ remoteTunnel' = (remoteTunnel \/ created)
       /\ IF ~found /\ ~created
            THEN StartThrows(Cloudflare,
                             "Cloudflare tunnel error: Failed to create tunnel: error",
                             certFiles)
          ELSE IF config.tunnels[Cloudflare].foreground
            THEN StartForeground(Cloudflare, allFiles)
          ELSE IF ~spawnOk
            THEN StartThrows(Cloudflare, "EACCES: cloudflared.log", allFiles)
          ELSE IF ~pidFileOk
            THEN SpawnedThenThrows(Cloudflare, "ENOSPC: cloudflared.pid", allFiles)
            ELSE SpawnedToProbe(Cloudflare, allFiles)

\* CloudflareTunnel.start(results.ssh.port, logDir): install() finds cloudflared
\* and start() goes on, or begins downloadBinary on Linux, or gives up
CloudflareStart ==
  /\ pc = "await_tunnels"
  /\ tpc[Cloudflare] = "avail"
  /\ IsAvailable(Cloudflare)
  /\ startArg' = [ startArg EXCEPT ![Cloudflare] = StartPort ]
  /\ IF host.cloudflared
       THEN /\ CloudflareProvision({ })
            /\ UNCHANGED retry
     ELSE IF platform = "linux"
       THEN /\ retry' = RetryBegin(DefaultMaxRetries, 1000, 10000, 2)
            /\ tpc' = [ tpc EXCEPT ![Cloudflare] = "installing" ]
            /\ UNCHANGED << nextPid, tun, polls, outcome, firstDone, fgChildren,
                            fileVars, remoteVars >>
       ELSE /\ StartThrows(Cloudflare, "Cloudflare tunnel error: Installation failed", { })
            /\ UNCHANGED << retry, remoteVars >>
  /\ UNCHANGED << availCalled, logs, signalled, timedOut, callVars >>
  /\ UNCHANGED << portListening, invocations, reportVars >>
  /\ UNCHANGED << envVars, config, pc, results, exitCode, sshVars >>

\* downloadBinary has returned or thrown: `sudo install` and the rest of start()
CloudflareInstalled ==
  /\ pc = "await_tunnels"
  /\ tpc[Cloudflare] = "installing"
  /\ retry.state \in { "returned", "thrown" }
  /\ retry' = NoRetry
  /\ IF retry.state = "thrown"
       THEN /\ StartThrows(Cloudflare, retry.result, { })
            /\ UNCHANGED remoteVars
       ELSE \E installOk \in BOOLEAN :
              IF installOk
                THEN CloudflareProvision({ DownloadPath })
                ELSE /\ StartThrows(Cloudflare, "Command failed: sudo install",
                                    { DownloadPath })
                     /\ UNCHANGED remoteVars
  /\ UNCHANGED << startArg, availCalled, logs, signalled, timedOut, callVars >>
  /\ UNCHANGED << portListening, invocations, reportVars >>
  /\ UNCHANGED << envVars, config, pc, results, exitCode, sshVars >>

\* the 'error' event of a child that was not spawned has no listener: it is
\* thrown from the event loop and ends the process
UncaughtSpawnError ==
  /\ spawnError
  /\ CanRun
  /\ pc # "exited"
  /\ exitCode = NoExit
  /\ exitCode' = << 1 >>
  /\ pc' = "exited"
  /\ UNCHANGED << envVars, auxVars, config, results, sshVars, tunnelVars >>

\* the detached backend appends its output to the log file while start() probes
\* it; the last sleep of the probe begins before the timeout has elapsed
BackendWrites(p) ==
  /\ pc = "await_tunnels"
  /\ tpc[p] = "polling"
  /\ tun[p].pid # NoPid
  /\ logs[p] = EmptyLog
  /\ \E content \in LogContents(p) : logs' = [ logs EXCEPT ![p] = content ]
  /\ logOwner' = [ logOwner EXCEPT ![p] = tun[p].pid ]
  /\ UNCHANGED << nextPid, tpc, tun, startArg, availCalled, polls, outcome, firstDone,
                  fgChildren, signalled, timedOut, callVars >>
  /\ UNCHANGED << portListening, retry, remoteVars, fileVars, invocations, summary,
                  killedBy, ids >>
  /\ UNCHANGED << envVars, config, pc, results, exitCode, sshVars >>

\* parseEndpointFromLog: one iteration of the loop, which reads the whole file,
\* then the rest of start() and of the task when the pattern matched
Poll(p) ==
  /\ pc = "await_tunnels"
  /\ tpc[p] = "polling"
  /\ polls[p] < MaxPolls
  /\ TimersRun
  /\ LET match == LogMatch(p, logs[p]) IN
       IF match # None
         THEN /\ tun' = [ tun EXCEPT ![p].endpoint = match ]
              /\ pluginFiles' = [ pluginFiles EXCEPT ![p] =
                                    IF p = Cloudflare THEN @ \cup PipelineFiles ELSE @ ]
              /\ Settle(p, SuccessOutcome(p, match, tun[p].pid, tun[p].logFile))
         ELSE /\ polls' = [ polls EXCEPT ![p] = polls[p] + 1 ]
              /\ UNCHANGED << tun, tpc, outcome, firstDone, pluginFiles >>
  /\ UNCHANGED << nextPid, logs, startArg, availCalled, fgChildren, signalled, timedOut, callVars >>
  /\ UNCHANGED << portListening, retry, remoteVars, pidFile, spawnError, invocations, reportVars >>
  /\ UNCHANGED << envVars, config, pc, results, exitCode, sshVars >>

PollTimeoutFatal(p) ==
  /\ pc = "await_tunnels"
  /\ tpc[p] = "polling"
  /\ polls[p] = MaxPolls
  /\ TimersRun
  /\ timedOut' = timedOut \cup { p }
  /\ signalled' = signalled \cup { tun[p].pid }
  /\ Settle(p, FailedOutcome(p, "Endpoint not detected"))
  /\ UNCHANGED << nextPid, tun, startArg, availCalled, logs, fgChildren, callVars >>
  /\ UNCHANGED << envVars, auxVars, config, pc, results, exitCode, sshVars >>

\* parseEndpointFromLog returns null after the timeout: start() warns and returns
PollTimeout(p) ==
  /\ pc = "await_tunnels"
  /\ tpc[p] = "polling"
  /\ polls[p] = MaxPolls
  /\ TimersRun
  /\ timedOut' = timedOut \cup { p }
  /\ Settle(p, SuccessOutcome(p, None, tun[p].pid, tun[p].logFile))
  /\ UNCHANGED << nextPid, tun, startArg, availCalled, logs, fgChildren, signalled, callVars >>
  /\ UNCHANGED << envVars, auxVars, config, pc, results, exitCode, sshVars >>

\* BaseTunnel.stop(): false without a PID; SIGTERM to the PID, which throws when
\* the process is gone; the PID is cleared only after the signal was sent
StopCall(p) ==
  /\ pc = "await_tunnels"
  /\ tpc[p] # "idle"
  /\ CanRun
  /\ IF tun[p].pid = NoPid
       THEN /\ stopReturn' = [ stopReturn EXCEPT ![p] = "false" ]
            /\ UNCHANGED << tun, signalled >>
       ELSE \E killOk \in BOOLEAN :
              IF killOk
                THEN /\ signalled' = signalled \cup { tun[p].pid }
                     /\ tun' = [ tun EXCEPT ![p].pid = NoPid ]
                     /\ stopReturn' = [ stopReturn EXCEPT ![p] = "true" ]
                ELSE /\ stopReturn' = [ stopReturn EXCEPT ![p] = "false" ]
                     /\ UNCHANGED << tun, signalled >>
  /\ UNCHANGED << nextPid, tpc, startArg, availCalled, polls, logs, outcome, firstDone,
                  fgChildren, timedOut, pipelineVars, connectReturn, healthReturn >>
  /\ UNCHANGED << envVars, auxVars, config, pc, results, exitCode, sshVars >>

\* getConnectCommand() called on a plugin instance
HealthCheckRunning(pid, alive) == << TRUE, "Running" >>

\* healthCheck(): { healthy, message } from this.pid and process.kill(pid, 0)
HealthCheck(pid, alive) ==
  IF pid = NoPid THEN << FALSE, "Not started" >>
  ELSE IF alive THEN << TRUE, "Running" >>
  ELSE << FALSE, "Process not found" >>

\* healthCheck() called on a plugin instance
HealthCheckCall(p) ==
  /\ pc = "await_tunnels"
  /\ tpc[p] # "idle"
  /\ CanRun
  /\ \E alive \in BOOLEAN :
       healthReturn' = [ healthReturn EXCEPT ![p] = HealthCheck(tun[p].pid, alive) ]
  /\ UNCHANGED << nextPid, tpc, tun, startArg, availCalled, polls, logs, outcome, firstDone,
                  fgChildren, signalled, timedOut, pipelineVars, stopReturn, connectReturn >>
  /\ UNCHANGED << envVars, auxVars, config, pc, results, exitCode, sshVars >>

ConnectCommandCall(p) ==
  /\ pc = "await_tunnels"
  /\ tpc[p] # "idle"
  /\ CanRun
  /\ connectReturn' = [ connectReturn EXCEPT ![p] = GetConnectCommand(p, tun[p].endpoint) ]
  /\ UNCHANGED << nextPid, tpc, tun, startArg, availCalled, polls, logs, outcome, firstDone,
                  fgChildren, signalled, timedOut, pipelineVars, stopReturn, healthReturn >>
  /\ UNCHANGED << envVars, auxVars, config, pc, results, exitCode, sshVars >>

\* Promise.allSettled(tunnelPromises): one entry per promise, in the array's order
AllSettledInCompletionOrder(o) ==
  IF firstDone = 0 THEN << >>
  ELSE << [ status |-> "fulfilled", value |-> o[firstDone] ] >>
       \o [ i \in 1..2 |->
              [ status |-> "fulfilled",
                value |-> o[CHOOSE q \in Plugins \ { firstDone } :
                              Cardinality({ r \in Plugins \ { firstDone } : r < q }) = i - 1] ] ]

AllSettledRejectFast(o) ==
  IF \E p \in Plugins : o[p].kind = "outcome" /\ ~o[p].success
    THEN << >>
    ELSE [ p \in 1..3 |-> [ status |-> "fulfilled", value |-> o[p] ] ]

AllSettledAttemptedOnly(o) ==
  LET kept == SelectSeq(<< Pinggy, SshJ, Cloudflare >>, LAMBDA p : o[p] # NullOutcome)
  IN [ i \in 1..Len(kept) |-> [ status |-> "fulfilled", value |-> o[kept[i]] ] ]

AllSettled(o) == [ p \in 1..3 |-> [ status |-> "fulfilled", value |-> o[p] ] ]

\* run(): results.tunnels = await Promise.allSettled(tunnelPromises)
AwaitTunnels ==
  /\ pc = "await_tunnels"
  /\ \A p \in Plugins : tpc[p] = "settled"
  /\ results' = [ results EXCEPT !.tunnels = AllSettled(outcome) ]
  /\ pc' = "finish"
  /\ UNCHANGED << envVars, auxVars, config, exitCode, sshVars, tunnelVars >>

----------------------------------------------------------------------------
\* run()

\* run(): options merged into config, config.validate(); a ConfigError reaches
\* the outer catch, which exits with 1
RunStart ==
  /\ pc = "run_start"
  /\ LET merged ==
           [ config EXCEPT
               !.port = IF options.sshPort # None THEN options.sshPort ELSE @,
               !.mode = IF options.sshMode # None THEN options.sshMode ELSE @,
               !.publicKey = IF options.publicKey # << >> THEN options.publicKey ELSE @ ]
     IN /\ config' = merged
        /\ IF ValidateErrors(merged) # { }
             THEN /\ exitCode' = << 1 >>
                  /\ pc' = "exited"
             ELSE /\ pc' = "setup"
                  /\ UNCHANGED exitCode
  /\ UNCHANGED << envVars, auxVars, results, sshVars, tunnelVars >>

\* printSummary's tunnel loop: a fulfilled entry with a value is printed with a
\* check mark and counted, a rejected entry is printed with a cross and its
\* error, a fulfilled null is skipped
SummaryLine(result) ==
  IF result.status = "fulfilled" /\ result.value # NullOutcome
    THEN [ mark |-> "started", tunnelType |-> result.value.tunnelType,
           endpoint |-> result.value.endpoint,
           connectCommand |-> result.value.connectCommand, error |-> None ]
    ELSE [ mark |-> "failed", tunnelType |-> "Tunnel", endpoint |-> None,
           connectCommand |-> None, error |-> "Unknown error" ]

\* printSummary(sshResult, tunnelResults): what the report shows
PrintSummary(sshRes, tunnelResults) ==
  LET printed == SelectSeq(tunnelResults,
                           LAMBDA r : (r.status = "fulfilled" /\ r.value # NullOutcome)
                                        \/ r.status = "rejected")
      lines == [ i \in 1..Len(printed) |-> SummaryLine(printed[i]) ]
  IN << [ ssh |-> IF sshRes.success THEN "Running" ELSE "Failed",
          sshError |-> IF sshRes.success THEN None ELSE sshRes.error,
          tunnels |-> lines,
          tunnelCount |-> Len(SelectSeq(lines, LAMBDA l : l.mark = "started")) ] >>

\* run(): setup() resolved, results.ssh is filled from its value
RunSshOk ==
  /\ entry = "run"
  /\ pc = "setup_ok"
  /\ results' = [ results EXCEPT !.ssh =
                    [ success |-> TRUE, error |-> None, mode |-> sshResult.mode,
                      port |-> sshResult.port, logPath |-> sshResult.logPath,
                      pid |-> sshResult.pid ] ]
  /\ pc' = "tunnels"
  /\ UNCHANGED << envVars, auxVars, config, exitCode, sshVars, tunnelVars >>

RunSshFailedContinues ==
  /\ entry = "run"
  /\ pc = "setup_failed"
  /\ results' = [ results EXCEPT !.ssh.error = sshError.message ]
  /\ pc' = "tunnels"
  /\ UNCHANGED << envVars, auxVars, config, exitCode, sshVars, tunnelVars >>

\* run(): setup() rejected: the error is logged and summarised, process.exit(1)
RunSshFailed ==
  /\ entry = "run"
  /\ pc = "setup_failed"
  /\ results' = [ results EXCEPT !.ssh.error = sshError.message ]
  /\ summary' = PrintSummary(results'.ssh, << >>)
  /\ exitCode' = << 1 >>
  /\ pc' = "exited"
  /\ UNCHANGED << envVars, config, sshVars, tunnelVars >>
  /\ UNCHANGED << portListening, retry, remoteVars, fileVars, invocations, killedBy, ids, logOwner >>

\* run(): persist (its errors are caught), printSummary, return results
RunFinish ==
  /\ pc = "finish"
  /\ summary' = PrintSummary(results.ssh, results.tunnels)
  /\ pc' = "done"
  /\ UNCHANGED << envVars, config, results, exitCode, sshVars, tunnelVars >>
  /\ UNCHANGED << portListening, retry, remoteVars, fileVars, invocations, killedBy, ids, logOwner >>

\* SIGINT or SIGTERM reaches the process while run() is in its tunnel phase, or
\* later while a foreground child keeps the process alive: run() and the bin
\* script register no handler, the default disposition ends the process
Interrupt ==
  /\ \/ pc \in { "await_tunnels", "finish" }
     \/ pc = "done" /\ fgChildren # { }
  /\ exitCode = NoExit
  /\ killedBy = None
  /\ \E sig \in { "SIGINT", "SIGTERM" } : killedBy' = sig
  /\ pc' = "exited"
  /\ UNCHANGED << envVars, config, results, exitCode, sshVars, tunnelVars >>
  /\ UNCHANGED << portListening, retry, remoteVars, fileVars, invocations, summary, ids, logOwner >>

\* child.on('exit', code => process.exit(code ?? 0)) of a foreground backend
ForegroundChildExit(p) ==
  /\ p \in fgChildren
  /\ Launches(p)
  /\ TimersRun
  /\ pc # "exited"
  /\ exitCode = NoExit
  /\ \E code \in { 0, 255 } : exitCode' = << code >>
  /\ pc' = "exited"
  /\ UNCHANGED << envVars, auxVars, config, results, sshVars, tunnelVars >>

RunNext ==
  \/ RunStart
  \/ SetupNext
  \/ RunSshOk
  \/ RunSshFailed
  \/ LaunchTunnels
  \/ \E p \in Plugins : TaskUnavailable(p)
  \/ PinggyStart
  \/ SshjStart
  \/ CloudflareStart
  \/ \E p \in Plugins : BackendWrites(p)
  \/ \E p \in Plugins : Poll(p)
  \/ \E p \in Plugins : PollTimeout(p)
  \/ AwaitTunnels
  \/ RunFinish
  \/ \E p \in Plugins : ForegroundChildExit(p)

----------------------------------------------------------------------------
\* Initial states

\* a tunnel's settings: enabled, foreground and, for Cloudflare, the API key;
\* ids: SSHJ_NAMESPACE and SSHJ_DEVICE are set
TunnelOff == [ enabled |-> FALSE, foreground |-> FALSE, apiKey |-> FALSE, ids |-> FALSE ]
TunnelBg == [ enabled |-> TRUE, foreground |-> FALSE, apiKey |-> TRUE, ids |-> FALSE ]
TunnelFg == [ enabled |-> TRUE, foreground |-> TRUE, apiKey |-> TRUE, ids |-> FALSE ]

\* before run() has reached its plugins
InitIdle ==
  /\ results = NoResults
  /\ tpc = [ p \in Plugins |-> "idle" ]
  /\ availCalled = { }

InitCommon ==
  /\ authKeys = Absent
  /\ selected = None
  /\ daemonStarts = 0
  /\ probe = NoProbe
  /\ probePolls = 0
  /\ sshdPid = NoPid
  /\ sshError = NoError
  /\ sshResult = NoSshResult
  /\ exitCode = NoExit
  /\ nextPid = 1
  /\ tun = [ p \in Plugins |-> NoTun ]
  /\ startArg = [ p \in Plugins |-> NotCalled ]
  /\ polls = [ p \in Plugins |-> 0 ]
  /\ logs = [ p \in Plugins |-> EmptyLog ]
  /\ outcome = [ p \in Plugins |-> Pending ]
  /\ firstDone = 0
  /\ fgChildren = { }
  /\ signalled = { }
  /\ timedOut = { }
  /\ origConfig = sshdConfig
  /\ observed = NothingObserved
  /\ backups = 0
  /\ serviceOps = 0
  /\ written = { }
  /\ elevated = FALSE
  /\ pipelineVars = NoPipelineVars
  /\ stopReturn = [ p \in Plugins |-> NotCalled ]
  /\ connectReturn = [ p \in Plugins |-> NotCalled ]
  /\ healthReturn = [ p \in Plugins |-> NoHealth ]
  /\ portListening = FALSE
  /\ creates = 0
  /\ pluginFiles = [ p \in Plugins |-> { } ]
  /\ pidFile = [ p \in Plugins |-> << >> ]
  /\ spawnError = FALSE
  /\ invocations = 1
  /\ summary = NoSummary
  /\ killedBy = None
  /\ logOwner = [ p \in Plugins |-> NoPid ]

\* SetupSSH.setup() called on the exported class, config taken as it is
InitSetup ==
  /\ entry = "setup"
  /\ platform \in Platforms
  /\ config \in [ port : { "2222" }, mode : Modes, publicKey : Blobs,
                  allowUsers : { << >> }, disableForceCwd : { FALSE },
                  tunnels : { [ p \in Plugins |-> TunnelOff ] } ]
  /\ options = NoOptions
  /\ host = PlainHost
  /\ remoteTunnel = FALSE
  /\ retry = NoRetry
  /\ ids = NoIds
  /\ sshdConfig = StockConfig
  /\ pc = "setup"
  /\ InitIdle
  /\ InitCommon

SpecSetup == InitSetup /\ [][SetupNext]_vars

\* the allow-lists SSH_ALLOW_USERS may give
AllowLists == { << >>, << "ci" >>, << "ci", "dev" >> }

\* SetupSSH.setup() with a valid key, over the hosts it may find
InitModes ==
  /\ entry = "setup"
  /\ platform \in Platforms
  /\ config \in [ port : { "2222", "22" }, mode : Modes, publicKey : { << EdLine >> },
                  allowUsers : AllowLists, disableForceCwd : BOOLEAN,
                  tunnels : { [ p \in Plugins |-> TunnelOff ] } ]
  /\ options = NoOptions
  /\ host \in { [ PlainHost EXCEPT !.probeTool = t ] : t \in ProbeTools }
  /\ remoteTunnel = FALSE
  /\ retry = NoRetry
  /\ ids = NoIds
  /\ sshdConfig \in SystemConfigs
  /\ pc = "setup"
  /\ InitIdle
  /\ InitCommon

SpecModes == InitModes /\ [][SetupNext]_vars

\* the SSH_MODE values and the blobs run() is started with
RunModes == { "auto", "root", "bogus" }

\* the platform, SSH_MODE and options.sshPort run() is started with
RunHosts ==
  { << "linux", "auto", None >>, << "linux", "root", None >>, << "linux", "root", "22" >>,
    << "linux", "bogus", None >>, << "win32", "auto", None >>, << "darwin", "auto", None >> }

\* the machines run() is started on
RunHostTools == { PlainHost, [ PlainHost EXCEPT !.probeTool = "none" ] }

RunBlobs == { NullBlob, << EcdsaLine >>, << CommentLine, EdLine >> }

TunnelNoKey == [ enabled |-> TRUE, foreground |-> FALSE, apiKey |-> FALSE, ids |-> FALSE ]
TunnelBgIds == [ enabled |-> TRUE, foreground |-> FALSE, apiKey |-> TRUE, ids |-> TRUE ]

TunnelConfigs ==
  { t \in [ Plugins -> { TunnelOff, TunnelBg, TunnelFg, TunnelNoKey, TunnelBgIds } ] :
      /\ t[Pinggy] \in { TunnelOff, TunnelBg, TunnelFg }
      /\ t[SshJ] \in { TunnelOff, TunnelBg, TunnelBgIds, TunnelFg }
      /\ t[Cloudflare] \in { TunnelOff, TunnelBg, TunnelFg, TunnelNoKey } }

\* the options of run(): none, a port, or the options of the README's example
RunOptions ==
  { NoOptions, [ NoOptions EXCEPT !.sshPort = "22" ],
    [ sshPort |-> None, sshMode |-> "user", publicKey |-> << EdLine >>,
      tunnels |-> [ p \in Plugins |-> IF p = Cloudflare THEN TunnelOff ELSE TunnelBg ] ] }

\* node bin/setup-ssh.js, or run(options) from a program
InitRun ==
  /\ entry = "run"
  /\ platform \in Platforms
  /\ config \in [ port : { "2222" }, mode : RunModes, publicKey : RunBlobs,
                  allowUsers : { << >> }, disableForceCwd : { FALSE },
                  tunnels : TunnelConfigs ]
  /\ options \in RunOptions
  /\ << platform, config.mode, options.sshPort >> \in RunHosts
  /\ options.tunnels # << >> =>
       /\ platform = "linux"
       /\ config.mode = "root"
       /\ config.publicKey = NullBlob
       /\ config.tunnels \in { [ p \in Plugins |-> TunnelOff ],
                               [ p \in Plugins |-> IF p = Cloudflare THEN TunnelBg
                                                                     ELSE TunnelOff ] }
       /\ host = PlainHost
  /\ host \in RunHostTools
  /\ remoteTunnel = FALSE
  /\ retry = NoRetry
  /\ ids = NoIds
  /\ sshdConfig = StockConfig
  /\ pc = "run_start"
  /\ InitIdle
  /\ InitCommon

Spec == InitRun /\ [][RunNext]_vars

\* one plugin in use, the others switched off
PluginConfigs ==
  { t \in TunnelConfigs : Cardinality({ p \in Plugins : t[p] # TunnelOff }) = 1 }

\* the machines the plugin classes are used on
PluginHosts ==
  { PlainHost, [ PlainHost EXCEPT !.cloudflared = FALSE ],
    [ PlainHost EXCEPT !.sshClient = FALSE ] }

\* a program that uses an exported plugin class as run() does, on a listening
\* SSH port: it has awaited isAvailable() and goes on to start(port, logDir),
\* and it may call getConnectCommand() and stop() at any time
InitPlugin ==
  /\ entry = "plugin"
  /\ platform \in { "linux", "win32" }
  /\ config \in [ port : { "2222" }, mode : { "auto" }, publicKey : { << EdLine >> },
                  allowUsers : { << >> }, disableForceCwd : { FALSE },
                  tunnels : PluginConfigs ]
  /\ options = NoOptions
  /\ host \in PluginHosts
  /\ remoteTunnel \in BOOLEAN
  /\ retry = NoRetry
  /\ ids = NoIds
  /\ sshdConfig = StockConfig
  /\ results = [ NoResults EXCEPT !.ssh.success = TRUE, !.ssh.mode = "user",
                                  !.ssh.port = config.port ]
  /\ tpc = [ p \in Plugins |-> IF config.tunnels[p] # TunnelOff THEN "avail" ELSE "idle" ]
  /\ availCalled = { p \in Plugins : config.tunnels[p] # TunnelOff }
  /\ pc = "await_tunnels"
  /\ InitCommon

\* the program runs its start() sequence once more, with a new instance of the
\* plugin class: the files (the log is opened for appending) and the remote
\* tunnel of the first run are still there
NextInvocation(p) ==
  /\ pc = "await_tunnels"
  /\ tpc[p] = "settled"
  /\ p \notin fgChildren
  /\ TimersRun
  /\ invocations < MaxInvocations
  /\ invocations' = invocations + 1
  /\ tpc' = [ tpc EXCEPT ![p] = "avail" ]
  /\ tun' = [ tun EXCEPT ![p] = NoTun ]
  /\ outcome' = [ outcome EXCEPT ![p] = Pending ]
  /\ startArg' = [ startArg EXCEPT ![p] = NotCalled ]
  /\ timedOut' = timedOut \ { p }
  /\ UNCHANGED << nextPid, availCalled, polls, logs, firstDone, fgChildren, signalled,
                  callVars >>
  /\ UNCHANGED << portListening, retry, remoteVars, fileVars, reportVars >>
  /\ UNCHANGED << envVars, config, pc, results, exitCode, sshVars >>

PluginNext ==
  \/ \E p \in Plugins : TaskUnavailable(p)
  \/ PinggyStart
  \/ SshjStart
  \/ CloudflareStart
  \/ CloudflareInstalled
  \/ RetryFnDone
  \/ RetryWake
  \/ UncaughtSpawnError
  \/ \E p \in Plugins : NextInvocation(p)
  \/ \E p \in Plugins : BackendWrites(p)
  \/ \E p \in Plugins : Poll(p)
  \/ \E p \in Plugins : PollTimeout(p)
  \/ \E p \in Plugins : StopCall(p)
  \/ \E p \in Plugins : ConnectCommandCall(p)
  \/ \E p \in Plugins : HealthCheckCall(p)
  \/ \E p \in Plugins : ForegroundChildExit(p)

SpecPlugin == InitPlugin /\ [][PluginNext]_vars

\* the tunnel settings of the runs that are followed through their tunnel phase
PhaseConfigs ==
  { t \in TunnelConfigs :
      /\ t[Pinggy] \in { TunnelBg, TunnelFg }
      /\ t[SshJ] \in { TunnelOff, TunnelBg }
      /\ t[Cloudflare] \in { TunnelOff, TunnelBg } }

\* the machines of those runs: with every tool, without cloudflared, without an
\* ssh client, and inside GitHub Actions
PhaseHosts ==
  { PlainHost, [ PlainHost EXCEPT !.cloudflared = FALSE ],
    [ PlainHost EXCEPT !.sshClient = FALSE ], [ PlainHost EXCEPT !.githubEnv = TRUE ] }

\* run() on Linux after setup() resolved in user mode with sshd found: the
\* bring-up's files are written, sshd runs, results.ssh is filled and the
\* tunnel tasks are about to be created
InitTunnels ==
  /\ entry = "run"
  /\ platform = "linux"
  /\ config \in [ port : { "2222" }, mode : { "auto" }, publicKey : { << EdLine >> },
                  allowUsers : { << >> }, disableForceCwd : { FALSE },
                  tunnels : PhaseConfigs ]
  /\ options = NoOptions
  /\ host \in PhaseHosts
  /\ remoteTunnel \in BOOLEAN
  /\ retry = NoRetry
  /\ ids = NoIds
  /\ sshdConfig = StockConfig
  /\ origConfig = StockConfig
  /\ authKeys = AuthorizedKeysContent(ParseKeys(config.publicKey))
  /\ selected = "user"
  /\ observed = [ NothingObserved EXCEPT !.sshdFound = "yes" ]
  /\ written = HostKeyPaths \cup { UserConfigPath, PidPath, LogPath }
  /\ daemonStarts = 1
  /\ sshdPid = 1
  /\ nextPid = 2
  /\ portListening = TRUE
  /\ probe = [ port |-> config.port, ready |-> TRUE ]
  /\ probePolls = 0
  /\ sshError = NoError
  /\ sshResult = ModeResult("user")
  /\ results = [ NoResults EXCEPT !.ssh =
                    [ success |-> TRUE, error |-> None, mode |-> sshResult.mode,
                      port |-> sshResult.port, logPath |-> sshResult.logPath,
                      pid |-> sshResult.pid ] ]
  /\ pc = "tunnels"
  /\ tpc = [ p \in Plugins |-> "idle" ]
  /\ availCalled = { }
  /\ exitCode = NoExit
  /\ tun = [ p \in Plugins |-> NoTun ]
  /\ startArg = [ p \in Plugins |-> NotCalled ]
  /\ polls = [ p \in Plugins |-> 0 ]
  /\ logs = [ p \in Plugins |-> EmptyLog ]
  /\ outcome = [ p \in Plugins |-> Pending ]
  /\ firstDone = 0
  /\ fgChildren = { }
  /\ signalled = { }
  /\ timedOut = { }
  /\ backups = 0
  /\ serviceOps = 0
  /\ elevated = FALSE
  /\ pipelineVars = NoPipelineVars
  /\ stopReturn = [ p \in Plugins |-> NotCalled ]
  /\ connectReturn = [ p \in Plugins |-> NotCalled ]
  /\ healthReturn = [ p \in Plugins |-> NoHealth ]
  /\ creates = 0
  /\ pluginFiles = [ p \in Plugins |-> { } ]
  /\ pidFile = [ p \in Plugins |-> << >> ]
  /\ spawnError = FALSE
  /\ invocations = 1
  /\ summary = NoSummary
  /\ killedBy = None
  /\ logOwner = [ p \in Plugins |-> NoPid ]

TunnelsNext ==
  \/ LaunchTunnels
  \/ \E p \in Plugins : TaskUnavailable(p)
  \/ PinggyStart
  \/ SshjStart
  \/ CloudflareStart
  \/ CloudflareInstalled
  \/ RetryFnDone
  \/ RetryWake
  \/ UncaughtSpawnError
  \/ \E p \in Plugins : BackendWrites(p)
  \/ \E p \in Plugins : Poll(p)
  \/ \E p \in Plugins : PollTimeout(p)
  \/ AwaitTunnels
  \/ RunFinish
  \/ \E p \in Plugins : ForegroundChildExit(p)
  \/ Interrupt

SpecTunnels == InitTunnels /\ [][TunnelsNext]_vars

\* the options retryWithBackoff is called with
RetryOptions ==
  { RetryBegin(maxRetries, initialDelay, maxDelay, factor) :
      maxRetries \in 0..MaxRetries, initialDelay \in { 250, 1000 },
      maxDelay \in { 3000, 10000 }, factor \in { 1, 2 } }

\* a program that calls the exported utils.retryWithBackoff(fn, options)
InitRetry ==
  /\ entry = "retry"
  /\ platform = "linux"
  /\ host = PlainHost
  /\ config = [ port |-> "2222", mode |-> "auto", publicKey |-> << EdLine >>,
                allowUsers |-> << >>, disableForceCwd |-> FALSE,
                tunnels |-> [ p \in Plugins |-> TunnelOff ] ]
  /\ options = NoOptions
  /\ remoteTunnel = FALSE
  /\ retry \in RetryOptions
  /\ ids = NoIds
  /\ sshdConfig = StockConfig
  /\ pc = "retry"
  /\ InitIdle
  /\ InitCommon

SpecRetry == InitRetry /\ [][RetryNext]_vars

\* the strings of IdChars up to a length
RECURSIVE IdStrings(_)
IdStrings(n) ==
  IF n = 0 THEN { << >> }
  ELSE IdStrings(n - 1) \cup { Append(t, c) : t \in IdStrings(n - 1), c \in IdChars }

\* a repository name and a runner id: short ones, and a long name with a
\* GITHUB_RUN_ID or a Date.now() of 13 digits
RepoNames == { << "a", "!", "A" >>, [ i \in 1..20 |-> "a" ] }
RunnerIds == { << "1" >>, [ i \in 1..13 |-> "1" ] }

\* the calls of sanitizeId and the environments the identifiers are generated in
IdCalls ==
  { [ NoIds EXCEPT !.s = s, !.maxLen = maxLen, !.repoName = repoName, !.runnerId = runnerId ] :
      s \in IdStrings(MaxIdLen), maxLen \in { -1, 0, 2, 28 },
      repoName \in RepoNames, runnerId \in RunnerIds }

\* a program that calls the exported utils.sanitizeId and starts the plugins
\* with generated names
InitIds ==
  /\ entry = "ids"
  /\ platform = "linux"
  /\ host = PlainHost
  /\ config = [ port |-> "2222", mode |-> "auto", publicKey |-> << EdLine >>,
                allowUsers |-> << >>, disableForceCwd |-> FALSE,
                tunnels |-> [ p \in Plugins |-> TunnelOff ] ]
  /\ options = NoOptions
  /\ remoteTunnel = FALSE
  /\ retry = NoRetry
  /\ ids \in IdCalls
  /\ sshdConfig = StockConfig
  /\ pc = "ids"
  /\ InitIdle
  /\ InitCommon


SpecIds == InitIds /\ [][IdsNext]_vars

----------------------------------------------------------------------------
\* Properties

\* run() has returned from Promise.allSettled: results.tunnels is filled
Aggregated == pc \in { "finish", "done" }

\* the plugins whose task went past isAvailable()
Attempted == { p \in Plugins : outcome[p].kind = "outcome" }

\* the plugins whose task took the catch block
Failed == { p \in Attempted : ~outcome[p].success }

\* C1: a plugin's start() is invoked only after SSH bring-up has resolved with a
\* result, and the port start() receives is the port of that result.
C1_StartAfterBringup ==
  \A p \in Plugins :
    startArg[p] # NotCalled =>
      /\ sshResult # NoSshResult
      /\ sshResult.mode \in { "user", "root", "windows" }
      /\ results.ssh.success
      /\ startArg[p] = sshResult.port

C1_Witness ==
  /\ startArg[Pinggy] = "22"
  /\ startArg[Cloudflare] = "22"
  /\ sshResult.mode = "root"

\* C2: when SSH bring-up fails, in any mode or on an unsupported platform, the
\* run can only report the failure and exit with code 1; no plugin's
\* isAvailable() or start() is invoked.
C2_BringupFailureStopsRun ==
  sshError # NoError =>
    /\ availCalled = { }
    /\ \A p \in Plugins : startArg[p] = NotCalled /\ tpc[p] = "idle"
    /\ pc \in { "setup_failed", "exited" }
    /\ pc = "setup_failed" => ENABLED RunSshFailed
    /\ pc = "exited" => exitCode = << 1 >> /\ results.ssh.error = sshError.message
    /\ ~results.ssh.success

C2_Witness ==
  /\ pc = "exited"
  /\ selected = "root"
  /\ sshError.name = "SSHDError"
  /\ results.ssh.error = "SSHD error: Port is not listening"
  /\ exitCode = << 1 >>

\* C3: with the three plugins attempted and the start() of exactly one of them
\* failing, the aggregate holds three outcomes, exactly one of them marked
\* failed, and the other two are the successes of their own start(), whose
\* backends were not signalled.
C3_FailureIsolated ==
  (Aggregated /\ Attempted = Plugins /\ Cardinality(Failed) = 1) =>
    /\ Len(results.tunnels) = 3
    /\ Cardinality({ i \in 1..Len(results.tunnels) :
                       ~results.tunnels[i].value.success }) = 1
    /\ \A q \in Plugins \ Failed :
         /\ results.tunnels[q].status = "fulfilled"
         /\ results.tunnels[q].value =
              IF config.tunnels[q].foreground
                THEN SuccessOutcome(q, None, NoPid, NoFile)
                ELSE SuccessOutcome(q, tun[q].endpoint, tun[q].pid, LogFile(q))
         /\ tun[q].pid \notin signalled

C3_Witness ==
  /\ pc = "done"
  /\ Attempted = Plugins
  /\ Failed = { Cloudflare }
  /\ results.tunnels[Pinggy].value.endpoint = EndpointLine(Pinggy)
  /\ results.tunnels[SshJ].value.success

\* C4: the aggregate lists the outcomes in the order of the input list, Pinggy,
\* SSH-J, Cloudflare, whichever task completed first.
C4_InputOrder ==
  Aggregated =>
    /\ Len(results.tunnels) = 3
    /\ \A i \in 1..3 :
         /\ results.tunnels[i].value = outcome[i]
         /\ results.tunnels[i].value.kind = "outcome" =>
              results.tunnels[i].value.tunnelType = << "Pinggy", "SSH-J", "Cloudflare" >>[i]

C4_Witness ==
  /\ pc = "done"
  /\ Attempted = Plugins
  /\ firstDone = Cloudflare
  /\ results.tunnels[1].value.tunnelType = "Pinggy"

\* C5 as stated: the aggregate has exactly one entry per attempted plugin, and a
\* plugin that was not available has no entry in it.
C5_Original ==
  Aggregated => Len(results.tunnels) = Cardinality(Attempted)

\* C5: the aggregate has one entry per plugin of the input list; a plugin that
\* was not available is never started and its entry is a fulfilled null, which
\* is neither a success nor a failure; every available plugin's entry is its
\* outcome.
C5_OneEntryPerPlugin ==
  Aggregated =>
    /\ Len(results.tunnels) = Cardinality(Plugins)
    /\ \A p \in Plugins :
         IF IsAvailable(p)
           THEN /\ results.tunnels[p].value.kind = "outcome"
                /\ results.tunnels[p].value.tunnelType = TunnelType(p)
           ELSE /\ results.tunnels[p] = [ status |-> "fulfilled", value |-> NullOutcome ]
                /\ startArg[p] = NotCalled

C5_Witness ==
  /\ pc = "done"
  /\ ~IsAvailable(Cloudflare)
  /\ Attempted = { Pinggy, SshJ }
  /\ results.tunnels[Cloudflare].value = NullOutcome

\* C6: when the log probe of a background Pinggy or Cloudflare backend times
\* out, start() reports success with a null endpoint and the backend is not
\* signalled.
C6_ProbeTimeoutIsSuccess ==
  \A p \in { Pinggy, Cloudflare } :
    p \in timedOut =>
      /\ outcome[p].kind = "outcome"
      /\ outcome[p].success
      /\ outcome[p].endpoint = None
      /\ outcome[p].pid = tun[p].pid
      /\ tun[p].pid # NoPid
      /\ tun[p].pid \notin signalled
      /\ Aggregated => results.tunnels[p].value = outcome[p]

C6_Witness ==
  /\ pc = "done"
  /\ timedOut = { Pinggy, Cloudflare }
  /\ results.tunnels[Pinggy].value.success
  /\ results.tunnels[Pinggy].value.endpoint = None

\* C7: setup() returns a result only after the readiness probe returned true
\* for the configured port; when the probe times out, setup() fails with the
\* SSH-daemon error and returns no result.
C7_ResultOnlyWhenListening ==
  /\ sshResult # NoSshResult =>
       /\ probe.ready
       /\ probe.port = config.port
       /\ sshResult.port = config.port
       /\ sshResult.mode = selected
  /\ (probe.port # None /\ ~probe.ready /\ pc # "mode_return") =>
       /\ sshError = [ name |-> "SSHDError", message |-> "SSHD error: Port is not listening" ]
       /\ sshResult = NoSshResult
       /\ pc \in { "setup_failed", "exited" }

C7_Witness ==
  /\ pc = "setup_ok"
  /\ sshResult.mode = "windows"
  /\ probe = [ port |-> "2222", ready |-> TRUE ]

\* C8: in every mode, once the daemon has been started or restarted the
\* authorized-keys file already holds the keys of the configured blob.
C8_KeysBeforeDaemon ==
  daemonStarts > 0 =>
    /\ authKeys # Absent
    /\ authKeys = AuthorizedKeysContent(ParseKeys(config.publicKey))

C8_Witness ==
  /\ daemonStarts > 0
  /\ selected = "user"
  /\ authKeys = AuthorizedKeysContent(<< EdLine >>)

\* C9: the mode is a function of the platform and the mode setting alone:
\* win32 gives Windows; linux with "root" gives Root; linux with any other
\* setting gives User; any other platform fails with a fatal error and no mode
\* is entered.
C9_ModeSelection ==
  (pc \notin { "setup", "dispatch" } /\ authKeys # Absent) =>
    /\ platform = "win32" => selected = "windows"
    /\ (platform = "linux" /\ config.mode = "root") => selected = "root"
    /\ (platform = "linux" /\ config.mode # "root") => selected = "user"
    /\ platform \notin { "win32", "linux" } =>
         /\ selected = None
         /\ sshError = [ name |-> "SSHDError", message |-> "SSHD error: Unsupported platform" ]
         /\ pc = "setup_failed"
         /\ daemonStarts = 0

C9_Witness ==
  /\ platform = "linux"
  /\ config.mode = "bogus"
  /\ selected = "user"

\* the key-type prefixes the documentation shows in a key blob
KeyTypePrefixes ==
  { << "ssh-", "ed25519" >>, << "ssh-", "rsa" >>, << "ecdsa-sha2-", "nistp256" >> }

\* the lines of a blob that begin with a key type, surrounding whitespace aside
KeyTypeLines(blob) ==
  SelectSeq(MapTrim(blob),
            LAMBDA l : \E t \in KeyTypePrefixes :
                         Len(l) >= Len(t) /\ SubSeq(l, 1, Len(t)) = t)

\* C10: for a blob with at least one line that begins with a recognized key
\* type, writeAuthorizedKeys succeeds and the file holds exactly those lines,
\* in their order.
C10_KeyLinesKept ==
  (pc # "setup" /\ config.publicKey # NullBlob /\ KeyTypeLines(config.publicKey) # << >>) =>
    /\ authKeys # Absent
    /\ [ i \in 1..Len(authKeys) |-> KeyOf(authKeys[i]) ] = KeyTypeLines(config.publicKey)

\* C11: for a blob with no line that begins with a recognized key type,
\* writeAuthorizedKeys fails with a configuration error (ConfigError) and the
\* authorized-keys file is not written.
C11_NoKeysIsConfigError ==
  (pc # "setup" /\ KeyTypeLines(config.publicKey) = << >>) =>
    /\ sshError.name = "ConfigError"
    /\ authKeys = Absent

\* C12: every key line of a multi-key blob, whatever its key type, ends up in
\* authorized_keys.
C12_EveryKeyTypeKept ==
  (pc # "setup" /\ Len(KeyTypeLines(config.publicKey)) >= 2) =>
    /\ authKeys # Absent
    /\ \A i \in 1..Len(KeyTypeLines(config.publicKey)) :
         \E j \in 1..Len(authKeys) :
           KeyOf(authKeys[j]) = KeyTypeLines(config.publicKey)[i]

\* C13: RootMode run by a user who is neither root nor able to use sudo
\* without a password fails with a PermissionError, and at that point the
\* system daemon config has been neither backed up nor rewritten and the
\* service has not been restarted.
C13_PermissionCheckFirst ==
  /\ (observed.currentUser = "runner" /\ observed.sudoNoPass = "no") =>
       /\ sshError.name = "PermissionError"
       /\ sshResult = NoSshResult
  /\ sshError.name = "PermissionError" =>
       /\ selected = "root"
       /\ backups = 0
       /\ sshdConfig = origConfig
       /\ serviceOps = 0
       /\ daemonStarts = 0

C13_Witness ==
  /\ pc = "setup_failed"
  /\ sshError.name = "PermissionError"
  /\ observed.currentUser = "runner"
  /\ origConfig = FullConfig

\* C14: after RootMode has rewritten an existing system daemon config, every
\* directive of its set (Port, PubkeyAuthentication, PasswordAuthentication,
\* PermitRootLogin, AllowUsers when an allow-list is configured) is a line of
\* the file with the configured value.
C14_EveryDirectivePresent ==
  (selected = "root" /\ pc \notin { "root_perm", "root_rewrite" }
     /\ observed.sudoNoPass = "yes" /\ origConfig # Absent) =>
    \A i \in 1..Len(RootSettings) :
      \E j \in 1..Len(sshdConfig) : sshdConfig[j] = RootSettings[i]

\* C15: when WindowsMode rewrites the daemon config, the result is the one the
\* directive set of RootMode gives for the same configuration.
C15_WindowsSameDirectives ==
  (selected = "windows" /\ origConfig # Absent /\ sshdConfig # origConfig) =>
    sshdConfig = ApplySettings(origConfig, RootSettings)

\* C16: UserMode leaves the system daemon config as it was and issues no
\* command to the system SSH service; every file it writes lies in its private
\* directory, which on success holds the daemon config, the PID file, the host
\* keys and the log; when sshd was found no command is run through sudo.
C16_UserModePrivate ==
  selected = "user" =>
    /\ sshdConfig = origConfig
    /\ backups = 0
    /\ serviceOps = 0
    /\ \A f \in written : f[1] = BaseDir
    /\ pc = "setup_ok" => written = HostKeyPaths \cup { UserConfigPath, PidPath, LogPath }
    /\ observed.sshdFound = "yes" => ~elevated

C16_Witness ==
  /\ pc = "setup_ok"
  /\ selected = "user"
  /\ observed.sshdFound = "yes"
  /\ << BaseDir, "sshd.log" >> \in written
  /\ origConfig = StockConfig

\* C17 as stated: a start() in foreground mode never returns normally, so the
\* orchestrator receives no outcome from it.
C17_Original ==
  \A p \in fgChildren : outcome[p].kind # "outcome"

\* C17: a start() in foreground mode spawns the backend as a child of the
\* current process and returns normally: the orchestrator receives a success
\* outcome with no endpoint, no PID and no log file, and aggregates it; the
\* process exits with the child's exit code only when the child exits.
C17_ForegroundReturns ==
  /\ \A p \in fgChildren :
       /\ config.tunnels[p].foreground
       /\ outcome[p] = SuccessOutcome(p, None, NoPid, NoFile)
       /\ tun[p].pid = NoPid
       /\ Aggregated => results.tunnels[p].value = outcome[p]
  /\ \A p \in { Pinggy, SshJ } :
       (config.tunnels[p].foreground /\ startArg[p] # NotCalled) => p \in fgChildren
  /\ exitCode \notin { NoExit, << 1 >> } => fgChildren # { }

C17_Witness ==
  /\ pc = "done"
  /\ exitCode = NoExit
  /\ fgChildren = { Pinggy, SshJ }
  /\ results.tunnels[Pinggy].value.success
  /\ results.tunnels[Pinggy].value.endpoint = None

\* C18: a getConnectCommand() call on Pinggy or Cloudflare returns nothing when
\* the instance has no endpoint, returns the command of the endpoint otherwise,
\* and changes no plugin state.
C18_ConnectCommandPure ==
  [][ \A p \in { Pinggy, Cloudflare } :
        connectReturn'[p] # connectReturn[p] =>
          /\ UNCHANGED << tun, tpc, outcome, logs, signalled, polls, pipelineVars, stopReturn >>
          /\ tun[p].endpoint = None => connectReturn'[p] = None
          /\ tun[p].endpoint = "tcp://rnd.a.pinggy.link:40000" =>
               connectReturn'[p] = "ssh -p 40000 user@rnd.a.pinggy.link -i <your-private-key>"
          /\ tun[p].endpoint = "tcp://rnd.a.pinggy.link" => connectReturn'[p] = None
          /\ tun[p].endpoint = "https://0a1b2c.cfargotunnel.com" =>
               connectReturn'[p] =
                 "ssh -o ProxyCommand=\"cloudflared access tcp --hostname https://0a1b2c.cfargotunnel.com\" user@https://0a1b2c.cfargotunnel.com"
    ]_vars

C18_Witness ==
  /\ Pinggy \in timedOut
  /\ tun[Pinggy].endpoint = None
  /\ connectReturn[Pinggy] = None

\* C19: after a background SSH-J start() succeeded, the connect command of its
\* aggregated outcome is the "ssh -J" command of the namespace and device the
\* tunnel was started with, configured or generated, and equals the exported
\* SSHJ_CONNECT.
C19_SshjCommandOfStart ==
  (Aggregated /\ ~config.tunnels[SshJ].foreground
     /\ results.tunnels[SshJ].value.kind = "outcome"
     /\ results.tunnels[SshJ].value.success) =>
    /\ results.tunnels[SshJ].value.connectCommand = SshjConnect(StartNamespace, StartDevice)
    /\ results.tunnels[SshJ].value.connectCommand = pipelineVars.SSHJ_CONNECT

\* C20: a stop() call returns true exactly when it sent a signal, and once it
\* has returned the stored PID is cleared, whether or not the signal could be
\* sent.
C20_StopClearsPid ==
  [][ \A p \in Plugins :
        stopReturn'[p] # stopReturn[p] =>
          /\ tun'[p].pid = NoPid
          /\ (stopReturn'[p] = "true") <=> (signalled' # signalled)
    ]_vars

\* C22: the delay slept after the failure of attempt number i, counted from 0,
\* is min(initialDelay * factor^i, maxDelay); for (1000, 2, 10000) the delays are
\* 1000, 2000, 4000, 8000, 10000, 10000, ...; no delay exceeds maxDelay.
C22_BackoffDelays ==
  \A i \in 1..Len(retry.delays) :
    /\ retry.delays[i] <= retry.maxDelay
    /\ retry.delays[i] =
         IF retry.initialDelay * retry.factor ^ (i - 1) < retry.maxDelay
           THEN retry.initialDelay * retry.factor ^ (i - 1)
           ELSE retry.maxDelay
    /\ (retry.initialDelay = 1000 /\ retry.factor = 2 /\ retry.maxDelay = 10000) =>
         retry.delays[i] = IF i <= 4 THEN << 1000, 2000, 4000, 8000 >>[i] ELSE 10000

C22_Witness ==
  /\ retry.initialDelay = 1000
  /\ retry.factor = 2
  /\ retry.maxDelay = 10000
  /\ retry.delays = << 1000, 2000, 4000, 8000, 10000, 10000 >>

\* C23: retryWithBackoff calls the operation at most maxRetries times; only the
\* last call can have succeeded, and then its value is returned; when every one
\* of the maxRetries calls failed, what is thrown is the error of the last call.
C23_LastErrorThrown ==
  LET calls == Len(retry.outcomes) + (IF retry.state = "calling" THEN 1 ELSE 0)
  IN /\ calls <= retry.maxRetries
     /\ \A i \in 1..Len(retry.outcomes) :
          retry.outcomes[i].ok => i = Len(retry.outcomes) /\ retry.state = "returned"
     /\ retry.state = "returned" =>
          /\ retry.outcomes[Len(retry.outcomes)].ok
          /\ retry.result = retry.outcomes[Len(retry.outcomes)].v
     /\ (retry.state = "thrown" /\ retry.maxRetries > 0) =>
          /\ Len(retry.outcomes) = retry.maxRetries
          /\ \A i \in 1..Len(retry.outcomes) : ~retry.outcomes[i].ok
          /\ retry.result = retry.outcomes[Len(retry.outcomes)].v

C23_Witness ==
  /\ retry.state = "thrown"
  /\ retry.maxRetries = 3
  /\ retry.outcomes = << [ ok |-> FALSE, v |-> "E1" ], [ ok |-> FALSE, v |-> "E1" ],
                        [ ok |-> FALSE, v |-> "E2" ] >>
  /\ retry.result = "E2"

\* C24: the port probe returns a boolean and does not throw; a look at the port
\* made before the timeout while the port is open makes it return true, and it
\* returns false only for a port that is not open.
C24_OpenPortSeen ==
  [][ (pc = "probe" /\ << probe, probePolls >>' # << probe, probePolls >>) =>
        /\ pc' \in { "probe", "mode_return" }
        /\ (portListening /\ probePolls < MaxPolls) => (probe' # probe /\ probe'.ready)
        /\ (probe' # probe /\ ~portListening) => ~probe'.ready
    ]_vars

\* C25 as stated: the log probe returns null only when the file never gained a
\* matching line before the probe returned.
C25_Original ==
  \A p \in { Pinggy, Cloudflare } :
    p \in timedOut => logs[p] = EmptyLog

\* C25: the log probe reads the file once per polling interval while the
\* timeout has not elapsed; a read that finds a match ends the probe with
\* exactly the matched text, a read that finds none is followed by a sleep, and
\* null is returned when the last sleep is over, whatever was written during it.
C25_LogProbe ==
  [][ \A p \in { Pinggy, Cloudflare } :
        (tpc[p] = "polling" /\ << tpc[p], polls[p] >>' # << tpc[p], polls[p] >>) =>
          IF polls[p] < MaxPolls
            THEN IF logs[p] = EmptyLog
                   THEN /\ polls'[p] = polls[p] + 1
                        /\ tpc'[p] = "polling"
                        /\ tun'[p].endpoint = None
                   ELSE /\ tpc'[p] = "settled"
                        /\ tun'[p].endpoint = logs[p][2]
                        /\ outcome'[p].endpoint = logs[p][2]
                        /\ p \notin timedOut'
            ELSE /\ p \in timedOut'
                 /\ tun'[p].endpoint = None
                 /\ outcome'[p].endpoint = None
    ]_vars

C25_Witness ==
  /\ Pinggy \in timedOut
  /\ logs[Pinggy] = << "Connecting... ", "tcp://rnd.a.pinggy.link:40000", " is ready" >>
  /\ tun[Pinggy].endpoint = None
  /\ outcome[Pinggy].endpoint = None

\* C21: Cloudflare start() creates a tunnel only when none of the chosen name
\* exists remotely: no create is issued for a name that already exists, in the
\* first invocation or in a repeated one.
C21_CreateOnlyWhenAbsent ==
  [][ creates' # creates => ~remoteTunnel ]_vars

\* C26: a wait on an external event suspends only the task that waits: while
\* the Cloudflare task is installing, downloading or probing, a Pinggy task
\* whose log probe is under way can take its next step, a read of the log or
\* the return at the timeout.
C26_WaitsSuspendOnlyCaller ==
  (pc = "await_tunnels" /\ tpc[Cloudflare] \in { "installing", "polling" }
     /\ tpc[Pinggy] = "polling" /\ ~spawnError) =>
    ENABLED (Poll(Pinggy) \/ PollTimeout(Pinggy))

\* C27: when SIGINT or SIGTERM arrives during or after the tunnel phase, every
\* tunnel backend whose PID is known at that time is sent a termination signal
\* before the process exits.
C27_InterruptCleansUp ==
  [][ killedBy' # killedBy =>
        /\ pc' = "exited"
        /\ \A p \in Plugins : tun[p].pid # NoPid => tun[p].pid \in signalled'
    ]_vars

C29_PidOfLaunchedProcess ==
  \A p \in Plugins :
    (outcome[p].kind = "outcome" /\ outcome[p].success /\ ~config.tunnels[p].foreground) =>
      /\ outcome[p].pid # NoPid
      /\ pidFile[p] = << outcome[p].pid >>
      /\ outcome[p].pid # sshdPid
      /\ \A q \in Plugins \ { p } : tun[q].pid # outcome[p].pid

\* C30: in the final report every tunnel whose start() failed has a line that
\* marks it as failed and gives its error, and the report counts as started
\* only the tunnels whose start() succeeded.
C30_FailuresReported ==
  (pc = "done" /\ summary # NoSummary) =>
    /\ \A p \in Plugins :
         (outcome[p].kind = "outcome" /\ ~outcome[p].success) =>
           \E i \in 1..Len(summary[1].tunnels) :
             /\ summary[1].tunnels[i].tunnelType = TunnelType(p)
             /\ summary[1].tunnels[i].mark = "failed"
             /\ summary[1].tunnels[i].error = outcome[p].error
    /\ summary[1].tunnelCount =
         Cardinality({ p \in Plugins : outcome[p].kind = "outcome" /\ outcome[p].success })

\* C31: when run(options) is given options.tunnels, a tunnel with enabled: true
\* there is attempted and a tunnel with enabled: false is not started, the way
\* options.sshMode and options.publicKey replace the configured values.
C31_TunnelOptionsApplied ==
  (options.tunnels # << >> /\ pc \in { "finish", "done" }) =>
    /\ config.mode = options.sshMode
    /\ config.publicKey = options.publicKey
    /\ \A p \in Plugins :
         IF options.tunnels[p].enabled
           THEN p \in Attempted
           ELSE startArg[p] = NotCalled

\* C32: for every input and every maxLen the result of sanitizeId neither
\* starts nor ends with '-' or '.', holds no two consecutive '-', and is not
\* empty; an input that sanitizes to nothing gives "ci".
C32_SanitizedShape ==
  ids.state # "idle" =>
    /\ ids.out # << >>
    /\ ids.out[1] \notin { "-", "." }
    /\ ids.out[Len(ids.out)] \notin { "-", "." }
    /\ \A i \in 1..(Len(ids.out) - 1) : ~(ids.out[i] = "-" /\ ids.out[i + 1] = "-")
    /\ (\A i \in 1..Len(ids.s) : ids.s[i] \in { "-", ".", "!" }) => ids.out = << "c", "i" >>

\* C39: the SSH-J namespace, the SSH-J device and the Cloudflare tunnel name
\* generated from the repository name and the runner id are at most 28
\* characters long.
C39_GeneratedIdLength ==
  ids.state = "generated" =>
    /\ Len(ids.namespace) <= 28
    /\ Len(ids.device) <= 28
    /\ Len(ids.tunnelName) <= 28

\* C38: for every maxRetries, 0 included, a retryWithBackoff call that has
\* ended has invoked the operation at least once, and what it threw is an error
\* the operation threw.
C38_AtLeastOneCall ==
  retry.state \in { "returned", "thrown" } =>
    /\ Len(retry.outcomes) >= 1
    /\ retry.state = "thrown" =>
         \E i \in 1..Len(retry.outcomes) :
           ~retry.outcomes[i].ok /\ retry.outcomes[i].v = retry.result

\* C37: a stop() that returns true has signalled the stored PID, which was not
\* signalled before, and leaves the plugin without a PID; on a plugin without
\* a PID healthCheck() reports unhealthy with "Not started" and stop() returns
\* false and sends no signal.
C37_StopOnce ==
  [][ \A p \in Plugins :
        /\ (stopReturn'[p] # stopReturn[p] /\ stopReturn'[p] = "true") =>
             /\ tun[p].pid # NoPid
             /\ tun[p].pid \notin signalled
             /\ signalled' = signalled \cup { tun[p].pid }
             /\ tun'[p].pid = NoPid
        /\ (stopReturn'[p] # stopReturn[p] /\ tun[p].pid = NoPid) =>
             /\ stopReturn'[p] = "false"
             /\ signalled' = signalled
        /\ (healthReturn'[p] # healthReturn[p] /\ tun[p].pid = NoPid) =>
             healthReturn'[p] = << FALSE, "Not started" >>
    ]_vars

C37_Witness ==
  /\ signalled = { 1 }
  /\ tun[Pinggy].pid = NoPid
  /\ stopReturn[Pinggy] = "false"
  /\ healthReturn[Pinggy] = << FALSE, "Not started" >>
  /\ outcome[Pinggy].kind = "outcome"
  /\ outcome[Pinggy].pid = 1

\* C33: on a host without the ssh client, the task of a Pinggy or SSH-J plugin
\* that was started ends with the failed outcome of a TunnelError that names
\* the missing client, and no backend launch was attempted for it.
C33_InstallBeforeLaunch ==
  \A p \in { Pinggy, SshJ } :
    (~host.sshClient /\ startArg[p] # NotCalled /\ tpc[p] = "settled") =>
      /\ outcome[p].kind = "outcome"
      /\ ~outcome[p].success
      /\ outcome[p].error \in
           { "Pinggy tunnel error: SSH client not found. Please install OpenSSH client.",
             "SSH-J tunnel error: SSH client not found. Please install OpenSSH client." }
      /\ pidFile[p] = << >>
      /\ p \notin fgChildren

\* C34: the endpoint of a start() outcome was written to the log by the
\* backend process that this start() launched, not by the backend of an
\* earlier invocation that used the same log directory.
C34_EndpointOfOwnBackend ==
  \A p \in { Pinggy, Cloudflare } :
    (outcome[p].kind = "outcome" /\ outcome[p].success /\ outcome[p].endpoint # None
       /\ outcome[p].pid # NoPid) =>
      logOwner[p] = outcome[p].pid

----------------------------------------------------------------------------
\* setup() run again on the same machine

\* a later process calls setup() with the same configuration: what the earlier
\* one left on the machine (daemon config, backups, key file, listening daemon)
\* is still there, what it held in memory is gone
SetupAgain ==
  /\ pc = "setup_ok"
  /\ invocations < MaxInvocations
  /\ invocations' = invocations + 1
  /\ pc' = "setup"
  /\ selected' = None
  /\ probe' = NoProbe
  /\ probePolls' = 0
  /\ sshdPid' = NoPid
  /\ sshError' = NoError
  /\ sshResult' = NoSshResult
  /\ observed' = NothingObserved
  /\ elevated' = FALSE
  /\ UNCHANGED << authKeys, daemonStarts, sshdConfig, origConfig, backups, serviceOps,
                  written >>
  /\ UNCHANGED << envVars, config, results, exitCode, tunnelVars >>
  /\ UNCHANGED << portListening, retry, remoteVars, fileVars, reportVars >>

\* setup() in root mode on Linux, with a valid key
InitRerun ==
  /\ entry = "setup"
  /\ platform = "linux"
  /\ config \in [ port : { "2222", "22" }, mode : { "root" }, publicKey : { << EdLine >> },
                  allowUsers : AllowLists, disableForceCwd : BOOLEAN,
                  tunnels : { [ p \in Plugins |-> TunnelOff ] } ]
  /\ options = NoOptions
  /\ host \in { [ PlainHost EXCEPT !.probeTool = t ] : t \in ProbeTools }
  /\ remoteTunnel = FALSE
  /\ retry = NoRetry
  /\ ids = NoIds
  /\ sshdConfig \in SystemConfigs
  /\ pc = "setup"
  /\ InitIdle
  /\ InitCommon

RerunNext ==
  \/ WriteAuthorizedKeysStep
  \/ Dispatch
  \/ RootCheckPermission
  \/ RootRewrite
  \/ RootRestart
  \/ PortOpens
  \/ ProbePoll
  \/ ProbeTimeout
  \/ ModeReturn
  \/ SetupAgain

SpecRerun == InitRerun /\ [][RerunNext]_vars

\* C36: when RootMode has rewritten the system daemon config in a second run
\* with the same inputs, the file is the one a single rewrite of the original
\* gives: no directive line and no forced-command Match block is there twice.
C36_RerunSameConfig ==
  (selected = "root" /\ invocations = 2 /\ observed.sudoNoPass = "yes"
     /\ pc \in { "root_restart", "probe", "mode_return", "setup_ok" }) =>
    sshdConfig = RootRewritten(origConfig)

====
